---- MODULE Spec2Model ----
(***************************************************************************)
(* Runtime spatial spawning: the base16 stream decoder, the buffered       *)
(* binary reader, the incremental format parser and the host tick that     *)
(* drives it (src/runtime-code/runtimeSpawn.ts), together with the offline *)
(* compiler's writer (src/portal-migrator/Program.cs, Utilities.cs) that   *)
(* produces the streams the runtime reads.                                 *)
(*                                                                         *)
(* Bytes are integers 0..255, text is a sequence of character codes, a     *)
(* JavaScript array is a sequence (or a function with holes where the code *)
(* leaves holes).  An operation that can throw returns a record whose      *)
(* field err is "none" or names the exception; the state it carries is the *)
(* state at the throw, as in the code.                                     *)
(***************************************************************************)
EXTENDS Integers, Sequences, FiniteSets, TLC

VARIABLES
    strings,        \* mod.strings: key (text) -> encoded block (text)
    reader,         \* ReaderSpec: the AsyncBinaryReader under test
    consumed,       \* ReaderSpec: the bytes the reader has handed out, in order
    lastRead,       \* ReaderSpec: outcome of the last typed read
    fixture,        \* the authored file the stream was compiled from
    parser,         \* global `parser` (runtimeSpawn.ts:712)
    objectManager,  \* global `objectManager` (runtimeSpawn.ts:713)
    lastCall,       \* outcome of the last handler invocation
    history,        \* record of the parse so far (not program state)
    game            \* the host world of the ticks and what they did in it

vars == <<strings, reader, consumed, lastRead, fixture, parser, objectManager,
          lastCall, history, game>>

(***************************************************************************)
(* Program constants                                                       *)
(***************************************************************************)
STR_CHUNK_SIZE == 200

DECODE_CHUNK_SIZE == STR_CHUNK_SIZE \div 2

BUFFER_SIZE == 100

CHUNKS_PER_CYCLE == 2

(***************************************************************************)
(* Arithmetic helpers                                                      *)
(***************************************************************************)
Min(a, b) == IF a <= b THEN a ELSE b

Max(a, b) == IF a >= b THEN a ELSE b

RECURSIVE SumSeq(_)
SumSeq(q) == IF q = <<>> THEN 0 ELSE Head(q) + SumSeq(Tail(q))

RECURSIVE Pow2(_)
Pow2(n) == IF n = 0 THEN 1 ELSE 2 * Pow2(n - 1)

RECURSIVE SumPow2(_)
\* Sum of 2^k over the bit positions k of S (all below 31).
SumPow2(S) ==
    IF S = {} THEN 0
    ELSE LET k == CHOOSE x \in S : TRUE IN Pow2(k) + SumPow2(S \ {k})

\* The bit positions set in a non-negative number below 2^w.
Bits(x, w) == {k \in 0..(w - 1) : (x \div Pow2(k)) % 2 = 1}

\* A 32-bit pattern, given by its set bits, read as a JavaScript int32.
ToInt32(bits) ==
    IF 31 \in bits
    THEN (SumPow2(bits \ {31}) - Pow2(30)) - Pow2(30)
    ELSE SumPow2(bits)

\* (x << shift) of JavaScript on a small non-negative x: the shift count is
\* taken modulo 32 and bits pushed past bit 31 are lost.
ShiftLeftBits(x, shift) ==
    {k + (shift % 32) : k \in {j \in Bits(x, 8) : j + (shift % 32) <= 31}}

(***************************************************************************)
(* Custom base16 (runtimeSpawn.ts:10-40, Utilities.cs:10-44)               *)
(***************************************************************************)
\* "_-,.:`~'+=^%<}] " as character codes.
CUSTOM_BASE16_TABLE ==
    <<95, 45, 44, 46, 58, 96, 126, 39, 43, 61, 94, 37, 60, 125, 93, 32>>

\* The precomputed 128-entry map, and the `< 128 ? map : -1` guard of its use.
CUSTOM_BASE16_MAP(code) ==
    IF code < 128 /\ \E i \in 1..16 : CUSTOM_BASE16_TABLE[i] = code
    THEN (CHOOSE i \in 1..16 : CUSTOM_BASE16_TABLE[i] = code) - 1
    ELSE -1

\* decodeCustomBase16(data, outData): outData is written in place up to the
\* first bad pair; the result carries the buffer as the call leaves it.
decodeCustomBase16(data, outData) ==
    LET decodedLength == Len(data) \div 2
        hi(j) == CUSTOM_BASE16_MAP(data[2 * j - 1])
        lo(j) == CUSTOM_BASE16_MAP(data[2 * j])
        bad == {j \in 1..decodedLength : hi(j) = -1 \/ lo(j) = -1}
        firstBad == CHOOSE j \in bad : \A k \in bad : j <= k
        written == IF bad = {} THEN decodedLength ELSE firstBad - 1
        out == [j \in 1..Len(outData) |->
                   IF j <= written THEN hi(j) * 16 + lo(j) ELSE outData[j]]
    IN  IF Len(data) % 2 # 0
        THEN [err |-> "Hex string length must be even", out |-> outData,
              n |-> 0, index |-> -1]
        ELSE IF Len(outData) < decodedLength
        THEN [err |-> "Data buffer too small", out |-> outData,
              n |-> 0, index |-> -1]
        ELSE IF bad # {}
        THEN [err |-> "Invalid hex character", out |-> out,
              n |-> 0, index |-> 2 * (firstBad - 1)]
        ELSE [err |-> "none", out |-> out, n |-> decodedLength, index |-> -1]

\* An encoder that writes the low nibble first.
EncodeCustomBase16_lowFirst(data) ==
    [c \in 1..(2 * Len(data)) |->
        LET b == data[(c + 1) \div 2]
        IN  IF c % 2 = 1 THEN CUSTOM_BASE16_TABLE[(b % 16) + 1]
                         ELSE CUSTOM_BASE16_TABLE[(b \div 16) + 1]]

\* Utilities.EncodeCustomBase16: high nibble first, then low nibble.
EncodeCustomBase16(data) ==
    [c \in 1..(2 * Len(data)) |->
        LET b == data[(c + 1) \div 2]
        IN  IF c % 2 = 1 THEN CUSTOM_BASE16_TABLE[(b \div 16) + 1]
                         ELSE CUSTOM_BASE16_TABLE[(b % 16) + 1]]

(***************************************************************************)
(* Stream keys: "<prefix><index in uppercase hexadecimal>"                 *)
(***************************************************************************)
\* "0123456789ABCDEF" as character codes.
HexDigitsUpper ==
    <<48, 49, 50, 51, 52, 53, 54, 55, 56, 57, 65, 66, 67, 68, 69, 70>>

RECURSIVE ToHexUpper(_)
\* n.toString(16).toUpperCase() / the "X" format of C#, n >= 0.
ToHexUpper(n) ==
    IF n < 16 THEN <<HexDigitsUpper[n + 1]>>
    ELSE ToHexUpper(n \div 16) \o <<HexDigitsUpper[(n % 16) + 1]>>

\* `${this.streamPrefix}${this.chunkIndex.toString(16).toUpperCase()}`
StreamKey(prefix, chunkIndex) == prefix \o ToHexUpper(chunkIndex)

(***************************************************************************)
(* SpatialSteamReader (runtimeSpawn.ts:46-108)                             *)
(***************************************************************************)
NewSpatialSteamReader ==
    [chunkIndex |-> 0,
     initialized |-> FALSE,
     chunkData |-> [i \in 1..DECODE_CHUNK_SIZE |-> 0],
     currentChunkLength |-> 0,
     chunkOffset |-> 0,
     streamPrefix |-> <<65>>,
     eof |-> FALSE]

\* updateDataChunk(): ret is the boolean the method returns.
updateDataChunk(strs, sr) ==
    LET key == StreamKey(sr.streamPrefix, sr.chunkIndex)
        decoded(dec) ==
            IF dec.err # "none"
            THEN [sr |-> [sr EXCEPT !.chunkData = dec.out], ret |-> FALSE,
                  err |-> dec.err]
            ELSE [sr |-> [sr EXCEPT !.currentChunkLength = dec.n,
                                    !.chunkData = dec.out,
                                    !.chunkOffset = 0,
                                    !.chunkIndex = @ + 1,
                                    !.initialized = TRUE],
                  ret |-> FALSE, err |-> "none"]
    IN  IF sr.eof
        THEN [sr |-> sr, ret |-> FALSE, err |-> "none"]
        ELSE IF key \notin DOMAIN strs
        THEN [sr |-> [sr EXCEPT !.eof = TRUE], ret |-> TRUE, err |-> "none"]
        ELSE decoded(decodeCustomBase16(strs[key], sr.chunkData))

RECURSIVE readLoop(_, _, _, _)
\* The while loop of read(): `copied` is resultBuffer[0..bytesCopied).  An
\* iteration that changes neither the reader nor bytesCopied repeats for
\* ever: the call never returns (err "never returns").
readLoop(strs, sr, byteCount, copied) ==
    LET refill == ~sr.initialized \/ sr.chunkOffset >= sr.currentChunkLength
        iteration(u) ==
            LET s1 == u.sr
                bytesToCopy == Min(byteCount - Len(copied),
                                   s1.currentChunkLength - s1.chunkOffset)
                s2 == [s1 EXCEPT !.chunkOffset = @ + bytesToCopy]
                c2 == copied \o SubSeq(s1.chunkData, s1.chunkOffset + 1,
                                       s1.chunkOffset + bytesToCopy)
            IN  IF u.err # "none"
                THEN [sr |-> s1, isNull |-> TRUE, data |-> <<>>, err |-> u.err]
                ELSE IF u.ret
                THEN [sr |-> s1, isNull |-> (copied = <<>>), data |-> copied,
                      err |-> "none"]
                ELSE IF s2 = sr /\ c2 = copied
                THEN [sr |-> s2, isNull |-> TRUE, data |-> <<>>,
                      err |-> "never returns"]
                ELSE readLoop(strs, s2, byteCount, c2)
    IN  IF Len(copied) >= byteCount
        THEN [sr |-> sr, isNull |-> FALSE, data |-> copied, err |-> "none"]
        ELSE iteration(IF refill THEN updateDataChunk(strs, sr)
                       ELSE [sr |-> sr, ret |-> FALSE, err |-> "none"])

\* read(byteCount): isNull tells a null result from a (possibly short) array.
read(strs, sr, byteCount) ==
    IF sr.eof /\ sr.chunkOffset >= Len(sr.chunkData)
    THEN [sr |-> sr, isNull |-> TRUE, data |-> <<>>, err |-> "none"]
    ELSE readLoop(strs, sr, byteCount, <<>>)

(***************************************************************************)
(* AsyncBinaryReader (runtimeSpawn.ts:111-232)                             *)
(***************************************************************************)
NewAsyncBinaryReader(sr) ==
    [buffer |-> [i \in 1..BUFFER_SIZE |-> 0],
     bufOffset |-> 0,
     bufLength |-> 0,
     totalOffset |-> 0,
     stringReader |-> sr,
     isStringReaderEof |-> FALSE,
     tempStringBufferLength |-> 0]

\* The compaction at the head of ensureData (lines 132-140).
compactWindow(r) ==
    IF r.bufOffset > 0 /\ r.bufOffset < r.bufLength
    THEN [r EXCEPT
            !.buffer = [i \in 1..BUFFER_SIZE |->
                           IF i <= r.bufLength - r.bufOffset
                           THEN r.buffer[i + r.bufOffset] ELSE r.buffer[i]],
            !.bufLength = r.bufLength - r.bufOffset,
            !.bufOffset = 0]
    ELSE IF r.bufOffset >= r.bufLength
    THEN [r EXCEPT !.bufOffset = 0, !.bufLength = 0]
    ELSE r

RECURSIVE fillLoop(_, _, _)
\* The refill loop of ensureData (lines 142-154).
fillLoop(strs, r, byteCount) ==
    LET spaceLeft == BUFFER_SIZE - r.bufLength
        iteration(got) ==
            LET r1 == [r EXCEPT !.stringReader = got.sr]
            IN  IF got.err # "none"
                THEN [r |-> r1, err |-> got.err]
                ELSE IF ~got.isNull /\ Len(got.data) > 0
                THEN fillLoop(strs,
                        [r1 EXCEPT
                           !.buffer = [i \in 1..BUFFER_SIZE |->
                                          IF i > r.bufLength
                                             /\ i <= r.bufLength + Len(got.data)
                                          THEN got.data[i - r.bufLength]
                                          ELSE r.buffer[i]],
                           !.bufLength = @ + Len(got.data)],
                        byteCount)
                ELSE [r |-> [r1 EXCEPT !.isStringReaderEof = TRUE],
                      err |-> "none"]
    IN  IF ~(r.bufLength - r.bufOffset < byteCount /\ ~r.isStringReaderEof)
        THEN [r |-> r, err |-> "none"]
        ELSE IF spaceLeft <= 0
        THEN [r |-> r, err |-> "none"]
        ELSE iteration(read(strs, r.stringReader, spaceLeft))

ensureData(strs, r, byteCount) ==
    LET filled(f) ==
            IF f.err # "none" THEN f
            ELSE IF f.r.bufLength - f.r.bufOffset < byteCount
            THEN [r |-> f.r, err |-> "Unexpected EOF"]
            ELSE f
    IN  IF r.bufLength - r.bufOffset >= byteCount
        THEN [r |-> r, err |-> "none"]
        ELSE filled(fillLoop(strs, compactWindow(r), byteCount))

\* readRaw(size): off is the window offset the value is read at.
readRaw(strs, r, size) ==
    LET ensured(e) ==
            IF e.err # "none"
            THEN [r |-> e.r, off |-> -1, err |-> e.err]
            ELSE [r |-> [e.r EXCEPT !.bufOffset = @ + size,
                                    !.totalOffset = @ + size],
                  off |-> e.r.bufOffset, err |-> "none"]
    IN  ensured(ensureData(strs, r, size))

\* A fixed-width read: view.getXxx(readRaw(size), true).  `bytes` are the
\* window bytes the DataView reads, lowest first; a DataView access outside
\* the window throws a RangeError.
readFixed(strs, r, size) ==
    LET viewed(rr) ==
            IF rr.err # "none"
            THEN [r |-> rr.r, bytes |-> <<>>, err |-> rr.err]
            ELSE IF rr.off < 0 \/ rr.off + size > BUFFER_SIZE
            THEN [r |-> rr.r, bytes |-> <<>>, err |-> "RangeError"]
            ELSE [r |-> rr.r,
                  bytes |-> SubSeq(rr.r.buffer, rr.off + 1, rr.off + size),
                  err |-> "none"]
    IN  viewed(readRaw(strs, r, size))

\* Little-endian values of the bytes a fixed-width read returned.  The
\* 32-bit ones are exact below 2^31 (the range of the model checker's
\* integers); the fields the parser reads with them stay far below.
getUint8(b) == b[1]

getUint16(b) == b[1] + 256 * b[2]

getInt16(b) == IF getUint16(b) >= 32768 THEN getUint16(b) - 65536
               ELSE getUint16(b)

getUint32(b) == b[1] + 256 * b[2] + 65536 * b[3] + 16777216 * b[4]

getInt32(b) == IF b[4] >= 128
               THEN (b[1] + 256 * b[2] + 65536 * b[3]
                     + 16777216 * (b[4] - 128)) - Pow2(30) - Pow2(30)
               ELSE getUint32(b)

\* A float32 is kept as its four bytes; FloatOf gives the value of the
\* patterns the model writes.
getFloat32(b) == b

(***************************************************************************)
(* decodeUTF8 (runtimeSpawn.ts:235-273)                                    *)
(***************************************************************************)
RECURSIVE decodeUTF8Loop(_, _, _, _)
\* The while loop of decodeUTF8; i is the 0-based index of the next byte.
\* A run of bytes below 128 is taken in one step (each pushes itself).
decodeUTF8Loop(bytes, i, endPos, chars) ==
    IF i >= endPos THEN [err |-> "none", chars |-> chars]
    ELSE
      LET c == bytes[i + 1]
          high == {j \in i..(endPos - 1) : bytes[j + 1] >= 128}
          runEnd == IF high = {} THEN endPos
                    ELSE CHOOSE j \in high : \A k \in high : j <= k
          c2 == bytes[i + 2]
          c3 == bytes[i + 3]
          c4 == bytes[i + 4]
          codePoint == ((c % 8) * 262144) + ((c2 % 64) * 4096)
                       + ((c3 % 64) * 64) + (c4 % 64)
      IN  IF c < 128
          THEN decodeUTF8Loop(bytes, runEnd, endPos,
                              chars \o SubSeq(bytes, i + 1, runEnd))
          ELSE IF c > 191 /\ c < 224
          THEN IF i + 1 >= endPos
               THEN [err |-> "Incomplete 2-byte UTF-8 sequence", chars |-> chars]
               ELSE decodeUTF8Loop(bytes, i + 2, endPos,
                        Append(chars, ((c % 32) * 64) + (c2 % 64)))
          ELSE IF c > 223 /\ c < 240
          THEN IF i + 2 >= endPos
               THEN [err |-> "Incomplete 3-byte UTF-8 sequence", chars |-> chars]
               ELSE decodeUTF8Loop(bytes, i + 3, endPos,
                        Append(chars, ((c % 16) * 4096) + ((c2 % 64) * 64)
                                      + (c3 % 64)))
          ELSE IF i + 3 >= endPos
               THEN [err |-> "Incomplete 4-byte UTF-8 sequence", chars |-> chars]
               ELSE decodeUTF8Loop(bytes, i + 4, endPos,
                        IF codePoint < 65536
                        THEN Append(chars, codePoint)
                        ELSE chars \o
                             <<55296 + ((codePoint - 65536) \div 1024),
                               56320 + ((codePoint - 65536) % 1024)>>)

decodeUTF8(bytes, start, length) ==
    IF start + length > Len(bytes)
    THEN [err |-> "Decode length goes past byte array length", chars |-> <<>>]
    ELSE decodeUTF8Loop(bytes, start, start + length, <<>>)

(***************************************************************************)
(* AsyncBinaryReader.readString (runtimeSpawn.ts:197-231)                  *)
(***************************************************************************)
RECURSIVE readLengthPrefix(_, _, _, _, _)
\* The do-while loop: byteCount |= (b & 0x7f) << shift, as an int32.
readLengthPrefix(strs, r, bits, shift, prefix) ==
    LET iteration(rb) ==
            LET b == getUint8(rb.bytes)
                bits2 == bits \cup ShiftLeftBits(b % 128, shift)
            IN  IF rb.err # "none"
                THEN [r |-> rb.r, byteCount |-> 0, prefix |-> prefix,
                      err |-> rb.err]
                ELSE IF b >= 128
                THEN readLengthPrefix(strs, rb.r, bits2, shift + 7,
                                      Append(prefix, b))
                ELSE [r |-> rb.r, byteCount |-> ToInt32(bits2),
                      prefix |-> Append(prefix, b), err |-> "none"]
    IN  iteration(readFixed(strs, r, 1))

RECURSIVE copyStringLoop(_, _, _, _)
\* The loop that assembles a string crossing the window into
\* tempStringBuffer; `copied` is tempStringBuffer[0..copied).
copyStringLoop(strs, r, byteCount, copied) ==
    LET iteration(e) ==
            LET available == Min(byteCount - Len(copied),
                                 e.r.bufLength - e.r.bufOffset)
            IN  IF e.err # "none"
                THEN [r |-> e.r, data |-> copied, err |-> e.err]
                ELSE copyStringLoop(strs,
                         [e.r EXCEPT !.bufOffset = @ + available,
                                     !.totalOffset = @ + available],
                         byteCount,
                         copied \o SubSeq(e.r.buffer, e.r.bufOffset + 1,
                                          e.r.bufOffset + available))
    IN  IF Len(copied) >= byteCount
        THEN [r |-> r, data |-> copied, err |-> "none"]
        ELSE iteration(ensureData(strs, r, 1))

\* readString(): val is the decoded text, bytes the stream bytes the call
\* took (length prefix, then payload), whether or not it then threw.
readString(strs, r) ==
    LET decodedFast(p, fast) ==
            IF fast.err # "none"
            THEN [r |-> p.r, val |-> <<>>, bytes |-> p.prefix, err |-> fast.err]
            ELSE [r |-> [p.r EXCEPT !.bufOffset = @ + p.byteCount,
                                    !.totalOffset = @ + p.byteCount],
                  val |-> fast.chars,
                  bytes |-> p.prefix \o SubSeq(p.r.buffer, p.r.bufOffset + 1,
                                               p.r.bufOffset + p.byteCount),
                  err |-> "none"]
        decodedSlow(p, slow, dec) ==
            IF dec.err # "none"
            THEN [r |-> slow.r, val |-> <<>>, bytes |-> p.prefix \o slow.data,
                  err |-> dec.err]
            ELSE [r |-> slow.r, val |-> dec.chars,
                  bytes |-> p.prefix \o slow.data, err |-> "none"]
        copiedSlow(p, slow) ==
            IF slow.err # "none"
            THEN [r |-> slow.r, val |-> <<>>, bytes |-> p.prefix \o slow.data,
                  err |-> slow.err]
            ELSE decodedSlow(p, slow, decodeUTF8(slow.data, 0, p.byteCount))
        prefixed(p) ==
            IF p.err # "none"
            THEN [r |-> p.r, val |-> <<>>, bytes |-> p.prefix, err |-> p.err]
            ELSE IF p.r.bufLength - p.r.bufOffset >= p.byteCount
            THEN decodedFast(p, decodeUTF8(p.r.buffer, p.r.bufOffset,
                                           p.byteCount))
            ELSE copiedSlow(p,
                    copyStringLoop(strs,
                        [p.r EXCEPT !.tempStringBufferLength =
                                        Max(@, p.byteCount)],
                        p.byteCount, <<>>))
    IN  prefixed(readLengthPrefix(strs, r, {}, 0, <<>>))

(***************************************************************************)
(* The stored stream: the compiler's segment split (Program.cs:434-445)    *)
(* and other layouts of the same bytes                                     *)
(***************************************************************************)
\* "A{keyIndex:x}": the index in lowercase hexadecimal.
JsonKey_lower(keyIndex) ==
    <<65>> \o [i \in 1..Len(ToHexUpper(keyIndex)) |->
                 IF ToHexUpper(keyIndex)[i] >= 65
                 THEN ToHexUpper(keyIndex)[i] + 32
                 ELSE ToHexUpper(keyIndex)[i]]

\* "A{keyIndex:X}"
JsonKey(keyIndex) == <<65>> \o ToHexUpper(keyIndex)

RECURSIVE SplitBytes(_, _)
\* Cut a byte sequence into blocks of the given lengths, in order.
SplitBytes(bytes, lengths) ==
    IF lengths = <<>> THEN <<>>
    ELSE <<SubSeq(bytes, 1, Head(lengths))>>
         \o SplitBytes(SubSeq(bytes, Head(lengths) + 1, Len(bytes)),
                       Tail(lengths))

\* The block lengths of the compiler's split of n bytes: 200 characters
\* (100 bytes) per segment, the last one shorter.
RECURSIVE CompilerLayout(_)
CompilerLayout(n) ==
    IF n <= 0 THEN <<>>
    ELSE <<Min(n, STR_CHUNK_SIZE \div 2)>>
         \o CompilerLayout(n - Min(n, STR_CHUNK_SIZE \div 2))

\* The same bytes with the short block first and full blocks after it.
HeadShortLayout(n) ==
    IF n % DECODE_CHUNK_SIZE = 0 THEN CompilerLayout(n)
    ELSE <<n % DECODE_CHUNK_SIZE>> \o CompilerLayout(n - (n % DECODE_CHUNK_SIZE))

\* mod.strings holding the given blocks under the keys A0, A1, ...
StoreBlocks(blocks) ==
    [key \in {JsonKey(i - 1) : i \in 1..Len(blocks)} |->
        LET i == CHOOSE j \in 1..Len(blocks) : JsonKey(j - 1) = key
        IN  EncodeCustomBase16(blocks[i])]

RECURSIVE Flatten(_)
Flatten(blocks) ==
    IF blocks = <<>> THEN <<>> ELSE Head(blocks) \o Flatten(Tail(blocks))

(***************************************************************************)
(* Reader harness: typed reads, in any order, over stored streams          *)
(***************************************************************************)
\* Longest stream the harness stores, in bytes.
MaxReaderBytes == 130

\* Length of the short stream the harness also reads.
ShortReaderBytes == 3

\* Number of byte patterns the harness draws the stream from.
ReaderPatterns == 4

\* Byte i (0-based) of pattern k.  Pattern 1 is plain small bytes (every
\* byte is a short string's length prefix); pattern 2 holds at offset 6 the
\* two-byte prefix of a string longer than the window; pattern 3 holds at
\* offset 3 a five-byte prefix whose 32-bit value has the sign bit set
\* (0xFFFFFFFF); pattern 4 holds there the prefix of 0xFFFFFF9C.
PatternByte(k, i) ==
    IF k = 2 /\ i = 6 THEN 230
    ELSE IF k = 2 /\ i = 7 THEN 0
    ELSE IF k = 3 /\ i \in 3..6 THEN 255
    ELSE IF k = 3 /\ i = 7 THEN 15
    ELSE IF k = 4 /\ i = 3 THEN 156
    ELSE IF k = 4 /\ i \in 4..6 THEN 255
    ELSE IF k = 4 /\ i = 7 THEN 15
    ELSE ((i * i) + (i \div 3)) % 7

ReaderStreams ==
    {[k \in 1..n |-> PatternByte(p, k - 1)] :
        n \in {0, ShortReaderBytes, DECODE_CHUNK_SIZE, MaxReaderBytes},
        p \in 1..ReaderPatterns}

\* Block layouts of n bytes: the compiler's, the short block first, and
\* one with a short block in the middle.
ReaderLayouts(n) ==
    {CompilerLayout(n), HeadShortLayout(n)}
    \cup (IF n > DECODE_CHUNK_SIZE
          THEN {<<DECODE_CHUNK_SIZE \div 2, n - DECODE_CHUNK_SIZE,
                  DECODE_CHUNK_SIZE \div 2>>}
          ELSE {})

NoParser == [exists |-> FALSE]

NoManager == [exists |-> FALSE]

\* No read has been made yet.
NoRead == [op |-> "none", err |-> "none", bytes |-> <<>>, before |-> 0,
           left |-> 0]

\* Bytes of the stored stream the reader r has yet to hand out: the unread
\* part of its window, the rest of the decoded block, the blocks after it.
StreamLeft(r, layout) ==
    (r.bufLength - r.bufOffset)
    + (r.stringReader.currentChunkLength - r.stringReader.chunkOffset)
    + SumSeq(SubSeq(layout, r.stringReader.chunkIndex + 1, Len(layout)))

\* No handler has run yet.
NoCall == [op |-> "none", err |-> "none", ret |-> FALSE, chunks |-> <<>>,
           readBytes |-> 0, indexBefore |-> 0, headerBefore |-> FALSE,
           completeBefore |-> FALSE]

\* Nothing parsed yet.  faulted: a processNextChunks invocation has
\* thrown; retried: one was made after that; cycles: the invocations made
\* with the palettes parsed, up to and including the first that completed
\* or threw; log: the processChunk calls of those invocations, in order;
\* processed: the processChunk calls, of any invocation, that returned.
NoHistory == [faulted |-> FALSE, retried |-> FALSE, cycles |-> 0,
              processed |-> 0, log |-> <<>>]

\* The host world: handles are numbered in the order SpawnObject returns
\* them; unspawned lists the handles passed to UnspawnObject, in order.
NewHost == [issued |-> 0, unspawned |-> <<>>]

\* hudManager before OnGameModeStarted (line 1737).
NoHud == [exists |-> FALSE]

\* The host world before the first tick.  host: the handles given out;
\* teamDataSet: the global of line 718; teamScores: the global cache the
\* ticks refresh (lines 1086-1089); ended: the winners passed to
\* mod.EndGameMode, in order; built: the DynamicObjectManager
\* constructions made; updates: the update() calls made; hud: hudManager.
\* player: what players, playerDeployments and playerTeam hold for the one
\* player id of the model (lines 943-947; playerKeyMap has its key and
\* playerCount is 1 while joined); vehicle: whether vehicles holds the one
\* vehicle id, and whether vehKeyMap and vehicleTeamId hold it, with the
\* team index (lines 949-950); vehicleSpawnersEnabled: line 719;
\* midParse: a callback ran between two parsing ticks.
NoGame == [host |-> NewHost, teamDataSet |-> FALSE,
           teamScores |-> [teamId \in {1, 2} |-> 0],
           ended |-> <<>>, built |-> 0, updates |-> 0, hud |-> NoHud,
           player |-> [joined |-> FALSE, deployed |-> FALSE, teamId |-> 0],
           vehicle |-> [present |-> FALSE, known |-> FALSE, team |-> 0],
           vehicleSpawnersEnabled |-> FALSE,
           midParse |-> FALSE]

ReaderInit ==
    /\ \E bytes \in ReaderStreams :
         \E layout \in ReaderLayouts(Len(bytes)) :
            /\ fixture = [kind |-> "bytes", bytes |-> bytes, layout |-> layout]
            /\ strings = StoreBlocks(SplitBytes(bytes, layout))
    /\ reader = NewAsyncBinaryReader(NewSpatialSteamReader)
    /\ consumed = <<>>
    /\ lastRead = NoRead
    /\ parser = NoParser
    /\ objectManager = NoManager
    /\ lastCall = NoCall
    /\ history = NoHistory
    /\ game = NoGame

\* A call that never returns ends the script: nothing runs after it.  The
\* harness also stops once the window offset is negative: from there every
\* fixed read throws until the offset is back at 0, and the window is then
\* read again from its start, without end.
ReaderRunning ==
    /\ lastRead.err # "never returns"
    /\ reader.bufOffset >= 0

ReadFixedStep(op, size) ==
    /\ ReaderRunning
    /\ LET res == readFixed(strings, reader, size)
       IN  /\ reader' = res.r
           /\ consumed' = consumed \o res.bytes
           /\ lastRead' = [op |-> op, err |-> res.err, bytes |-> res.bytes,
                           before |-> reader.totalOffset,
                           left |-> StreamLeft(reader, fixture.layout)]
    /\ UNCHANGED <<strings, fixture, parser, objectManager, lastCall, history,
                   game>>

ReadByte == ReadFixedStep("readByte", 1)

ReadUInt16 == ReadFixedStep("readUInt16", 2)

ReadUInt32 == ReadFixedStep("readUInt32", 4)

ReadString ==
    /\ ReaderRunning
    /\ LET res == readString(strings, reader)
       IN  /\ reader' = res.r
           /\ consumed' = consumed \o res.bytes
           /\ lastRead' = [op |-> "readString", err |-> res.err,
                           bytes |-> res.bytes, before |-> reader.totalOffset,
                           left |-> StreamLeft(reader, fixture.layout),
                           val |-> res.val]
    /\ UNCHANGED <<strings, fixture, parser, objectManager, lastCall, history,
                   game>>

ReaderNext == ReadByte \/ ReadUInt16 \/ ReadUInt32 \/ ReadString

ReaderSpec == ReaderInit /\ [][ReaderNext]_vars

(***************************************************************************)
(* Sequential reads with exception propagation                             *)
(***************************************************************************)
FieldSize(ty) ==
    CASE ty = "u8" -> 1
      [] ty \in {"u16", "i16"} -> 2
      [] ty \in {"u32", "i32", "f32"} -> 4

\* One typed read: readByte, readUInt16, readInt16, readUInt32, readInt32,
\* readFloat32 (val: the bytes the DataView reads) or readString (val: text).
readField(strs, r, ty) ==
    LET ofString(s) == [r |-> s.r, val |-> s.val, err |-> s.err]
        ofFixed(f) == [r |-> f.r, val |-> f.bytes, err |-> f.err]
    IN  IF ty = "str" THEN ofString(readString(strs, r))
        ELSE ofFixed(readFixed(strs, r, FieldSize(ty)))

RECURSIVE readMany(_, _, _)
\* The reads of `types` one after the other; stops at the first that throws.
readMany(strs, r, types) ==
    LET both(f, rest) == [r |-> rest.r, vals |-> <<f.val>> \o rest.vals,
                          err |-> rest.err]
        first(f) ==
            IF f.err # "none"
            THEN [r |-> f.r, vals |-> <<>>, err |-> f.err]
            ELSE both(f, readMany(strs, f.r, Tail(types)))
    IN  IF types = <<>> THEN [r |-> r, vals |-> <<>>, err |-> "none"]
        ELSE first(readField(strs, r, Head(types)))

RECURSIVE readRecords(_, _, _, _)
\* A loop that reads n records of the given field types; recs holds the
\* records read completely before the loop ended or threw.
readRecords(strs, r, n, types) ==
    LET both(m, rest) == [r |-> rest.r, recs |-> <<m.vals>> \o rest.recs,
                          err |-> rest.err]
        first(m) ==
            IF m.err # "none"
            THEN [r |-> m.r, recs |-> <<>>, err |-> m.err]
            ELSE both(m, readRecords(strs, m.r, n - 1, types))
    IN  IF n <= 0 THEN [r |-> r, recs |-> <<>>, err |-> "none"]
        ELSE first(readMany(strs, r, types))

(***************************************************************************)
(* Host type enumerations, runtimeSpawn.ts:276-288 and 527                 *)
(***************************************************************************)
\* "Foo", "Bar", "Zed", "Abbasid" as character codes.
NameFoo == <<70, 111, 111>>

NameBar == <<66, 97, 114>>

NameZed == <<90, 101, 100>>

MapAbbasid == <<65, 98, 98, 97, 115, 105, 100>>

\* mod.RuntimeSpawn_Common: the type names every map resolves.
RuntimeSpawn_Common == [name \in {NameFoo} |-> 11]

\* mod.RuntimeSpawn_Abbasid: the names only that map resolves.
RuntimeSpawn_Abbasid == [name \in {NameBar} |-> 22]

\* mapTypeToEnum[mapType]: undefined for a map type that is not a key.
mapTypeToEnum(mapType) ==
    IF mapType = MapAbbasid
    THEN [defined |-> TRUE, enum |-> RuntimeSpawn_Abbasid]
    ELSE [defined |-> FALSE, enum |-> RuntimeSpawn_Abbasid]

(***************************************************************************)
(* JavaScript arrays with holes                                            *)
(***************************************************************************)
Hole == [defined |-> FALSE]

Elem(v) == [defined |-> TRUE, v |-> v]

\* new Array(n) with its first elements assigned from vals.
ArrayFilled(n, vals) ==
    [i \in 1..n |-> IF i <= Len(vals) THEN Elem(vals[i]) ELSE Hole]

\* arr[idx] for a 0-based idx: undefined (a hole) outside the array.
ArrayAt(arr, idx) ==
    IF idx >= 0 /\ idx < Len(arr) THEN arr[idx + 1] ELSE Hole

(***************************************************************************)
(* IncrementalDataParser (runtimeSpawn.ts:357-566)                         *)
(***************************************************************************)
\* The constructor: the header reads, then the array allocations.  p is
\* the object built; the caller has it only when err is "none".
NewIncrementalDataParser(strs) ==
    LET allocated(h) ==
            [exists |-> TRUE,
             reader |-> h.r,
             chunkSize |-> getFloat32(h.vals[1]),
             mapSpecificEnum |-> mapTypeToEnum(h.vals[2]),
             chunksMinBounds |-> <<h.vals[5], h.vals[6], h.vals[7]>>,
             chunksMaxBounds |-> <<h.vals[8], h.vals[9], h.vals[10]>>,
             chunkObjects |-> [length |-> getInt32(h.vals[3]), at |-> <<>>],
             scalePalette |-> ArrayFilled(getUint16(h.vals[11]), <<>>),
             rotationPalette |-> ArrayFilled(getUint16(h.vals[12]), <<>>),
             typePalette |-> ArrayFilled(getUint16(h.vals[13]), <<>>),
             chunkInfos |-> ArrayFilled(getUint16(h.vals[4]), <<>>),
             chunkMap |-> <<>>,
             uidToChunk |-> <<>>,
             headerParsed |-> FALSE,
             currentChunkIndex |-> 0,
             currentObjectCount |-> 0,
             isComplete |-> FALSE]
        header(h) ==
            IF h.err # "none" THEN [p |-> [exists |-> FALSE], err |-> h.err]
            ELSE IF getInt32(h.vals[3]) < 0
            THEN [p |-> [exists |-> FALSE], err |-> "RangeError"]
            ELSE [p |-> allocated(h), err |-> "none"]
        version(v) ==
            IF v.err # "none" THEN [p |-> [exists |-> FALSE], err |-> v.err]
            ELSE IF getUint16(v.val) # 1
            THEN [p |-> [exists |-> FALSE],
                  err |-> "Unsupported binary version"]
            ELSE header(readMany(strs, v.r,
                          <<"f32", "str", "i32", "u16",
                            "f32", "f32", "f32", "f32", "f32", "f32",
                            "u16", "u16", "u16">>))
    IN  version(readField(strs, NewAsyncBinaryReader(NewSpatialSteamReader),
                          "u16"))

\* A chunk-index record as parseDataPalette stores it.
ChunkInfoOf(vals) ==
    [cx |-> getInt16(vals[1]), cy |-> getInt16(vals[2]),
     cz |-> getInt16(vals[3]),
     offset |-> getUint32(vals[4]), length |-> getUint32(vals[5])]

\* The loops of parseDataPalette (lines 420-441): each fills its array up
\* to the element whose read throws; headerParsed is set only when all
\* four loops ended.
fillPalettes(strs, p) ==
    LET vec == <<"f32", "f32", "f32">>
        infos(p3, c) ==
            LET p4 == [p3 EXCEPT
                         !.reader = c.r,
                         !.chunkInfos =
                             ArrayFilled(Len(@),
                                 [i \in 1..Len(c.recs) |->
                                     ChunkInfoOf(c.recs[i])])]
            IN  IF c.err # "none" THEN [p |-> p4, err |-> c.err]
                ELSE [p |-> [p4 EXCEPT !.headerParsed = TRUE], err |-> "none"]
        types(p2, t) ==
            LET p3 == [p2 EXCEPT
                         !.reader = t.r,
                         !.typePalette =
                             ArrayFilled(Len(@),
                                 [i \in 1..Len(t.recs) |-> t.recs[i][1]])]
            IN  IF t.err # "none" THEN [p |-> p3, err |-> t.err]
                ELSE infos(p3, readRecords(strs, t.r, Len(p.chunkInfos),
                                  <<"i16", "i16", "i16", "u32", "u32">>))
        rotations(p1, ro) ==
            LET p2 == [p1 EXCEPT
                         !.reader = ro.r,
                         !.rotationPalette = ArrayFilled(Len(@), ro.recs)]
            IN  IF ro.err # "none" THEN [p |-> p2, err |-> ro.err]
                ELSE types(p2, readRecords(strs, ro.r, Len(p.typePalette),
                                           <<"str">>))
        scales(s) ==
            LET p1 == [p EXCEPT
                         !.reader = s.r,
                         !.scalePalette = ArrayFilled(Len(@), s.recs)]
            IN  IF s.err # "none" THEN [p |-> p1, err |-> s.err]
                ELSE rotations(p1, readRecords(strs, s.r,
                                       Len(p.rotationPalette), vec))
    IN  scales(readRecords(strs, p.reader, Len(p.scalePalette), vec))

\* A parseDataPalette that reads the palettes on every call.
parseDataPalette_unguarded(strs, p) == fillPalettes(strs, p)

\* parseDataPalette(), lines 417-442: nothing to do once headerParsed.
parseDataPalette(strs, p) ==
    IF p.headerParsed THEN [p |-> p, err |-> "none"]
    ELSE fillPalettes(strs, p)

\* The type lookup of processChunk (lines 523-527): the map-specific
\* table first, then the common one; undefined when neither has the name
\* (or the palette has no such index).
ResolveType(p, typeIdx) ==
    LET entry == ArrayAt(p.typePalette, typeIdx)
    IN  IF ~entry.defined THEN [defined |-> FALSE, id |-> 0]
        ELSE IF p.mapSpecificEnum.defined
                /\ entry.v \in DOMAIN p.mapSpecificEnum.enum
        THEN [defined |-> TRUE, id |-> p.mapSpecificEnum.enum[entry.v]]
        ELSE IF entry.v \in DOMAIN RuntimeSpawn_Common
        THEN [defined |-> TRUE, id |-> RuntimeSpawn_Common[entry.v]]
        ELSE [defined |-> FALSE, id |-> 0]

\* map.set(key, value) on a Map kept as a function.
MapSet(m, key, value) ==
    [k \in (DOMAIN m) \cup {key} |-> IF k = key THEN value ELSE m[k]]

\* `${cx},${cy},${cz}`: the key text is one-to-one with the triple.
ChunkKeyOf(cx, cy, cz) == <<cx, cy, cz>>

\* const customScale = scaleIdx >= 255 (line 499).
customScale(scaleIdx) == scaleIdx >= 255

\* customRotation that never sees the inline marker.
customRotation_never(rotIdx) == FALSE

\* const customRotation = rotIdx >= 255 (line 500).
customRotation(rotIdx) == rotIdx >= 255

\* A scale or rotation of an object: the inline triple, or the palette
\* entry (a hole when the palette has no such index).
PaletteOrInline(custom, inline, palette, idx) ==
    IF custom
    THEN Elem([custom |-> TRUE, v |-> [i \in 1..3 |-> getUint16(inline[i])]])
    ELSE IF ArrayAt(palette, idx).defined
    THEN Elem([custom |-> FALSE, v |-> ArrayAt(palette, idx).v])
    ELSE Hole

\* Lines 522-550 for one object whose record has been read (rd: the parser
\* with its reader past the record): what becomes of the object, and the
\* parser after it.  typeId === undefined: `continue`; a toModVector() on
\* an undefined scale or rotation throws after the uid was taken: caught.
createObject(rd, info, raw, scale, rot, typeId) ==
    LET uid == rd.currentObjectCount
        obj == [uid |-> uid,
                typeId |-> typeId.id,
                position |-> [chunk |-> <<info.cx, info.cy, info.cz>>,
                              raw |-> raw],
                scale |-> scale.v,
                rotation |-> rot.v]
    IN  IF ~typeId.defined
        THEN [outcome |-> "unresolved", p |-> rd]
        ELSE IF ~scale.defined \/ ~rot.defined
        THEN [outcome |-> "failed",
              p |-> [rd EXCEPT !.currentObjectCount = uid + 1]]
        ELSE [outcome |-> "accepted",
              p |-> [rd EXCEPT
                       !.currentObjectCount = uid + 1,
                       !.chunkObjects =
                           [length |-> Max(@.length, uid + 1),
                            at |-> MapSet(@.at, uid, obj)],
                       !.uidToChunk =
                           MapSet(@, uid,
                                  ChunkKeyOf(info.cx, info.cy, info.cz))]]

RECURSIVE processObjects(_, _, _, _, _, _)
\* The object loop of processChunk (lines 489-551), from object j on.
\* objects lists, per object read, what became of it.  A position is kept
\* as the chunk triple and the raw uint16 triple it is de-quantized from
\* (origin + raw / 65535 * chunkSize); an inline override as its raw triple.
processObjects(strs, p, info, j, objCount, bounds) ==
    LET triple == <<"u16", "u16", "u16">>
        skip(r) == [r |-> r, vals |-> <<>>, err |-> "none"]
        event(base, cr, made) ==
            [j |-> j, outcome |-> made.outcome,
             uidBefore |-> p.currentObjectCount,
             uidAfter |-> made.p.currentObjectCount,
             size |-> cr.r.totalOffset - p.reader.totalOffset,
             scaleIdx |-> getUint8(base.vals[4]),
             rotIdx |-> getUint8(base.vals[5]),
             typeIdx |-> getUint16(base.vals[6])]
        both(ev, rest) ==
            [p |-> rest.p, bounds |-> rest.bounds, err |-> rest.err,
             objects |-> <<ev>> \o rest.objects]
        created(base, cr, made) ==
            both(event(base, cr, made),
                 processObjects(strs, made.p, info, j + 1, objCount,
                     IF made.outcome = "accepted"
                     THEN [bounds EXCEPT !.end = made.p.currentObjectCount]
                     ELSE bounds))
        rotation(base, cs, cr) ==
            IF cr.err # "none"
            THEN [p |-> [p EXCEPT !.reader = cr.r], bounds |-> bounds,
                  err |-> cr.err, objects |-> <<>>]
            ELSE created(base, cr,
                     createObject([p EXCEPT !.reader = cr.r], info,
                         [i \in 1..3 |-> getUint16(base.vals[i])],
                         PaletteOrInline(customScale(getUint8(base.vals[4])),
                                         cs.vals, p.scalePalette,
                                         getUint8(base.vals[4])),
                         PaletteOrInline(customRotation(getUint8(base.vals[5])),
                                         cr.vals, p.rotationPalette,
                                         getUint8(base.vals[5])),
                         ResolveType(p, getUint16(base.vals[6]))))
        scaled(base, cs) ==
            IF cs.err # "none"
            THEN [p |-> [p EXCEPT !.reader = cs.r], bounds |-> bounds,
                  err |-> cs.err, objects |-> <<>>]
            ELSE rotation(base, cs,
                     IF customRotation(getUint8(base.vals[5]))
                     THEN readMany(strs, cs.r, triple) ELSE skip(cs.r))
        record(base) ==
            IF base.err # "none"
            THEN [p |-> [p EXCEPT !.reader = base.r], bounds |-> bounds,
                  err |-> base.err, objects |-> <<>>]
            ELSE scaled(base,
                     IF customScale(getUint8(base.vals[4]))
                     THEN readMany(strs, base.r, triple) ELSE skip(base.r))
    IN  IF j >= objCount
        THEN [p |-> p, bounds |-> bounds, err |-> "none", objects |-> <<>>]
        ELSE record(readMany(strs, p.reader,
                             <<"u16", "u16", "u16", "u8", "u8", "u16">>))

\* bytesLeftover that never sees a mismatch.
bytesLeftover_zero(info, r) == 0

\* const bytesLeftover = info.offset - this.reader.totalOffset (line 473).
bytesLeftover(info, r) == info.offset - r.totalOffset

\* processChunk(info) for chunk-index entry `index`.  ev reports the call:
\* the declared offset, totalOffset at entry and exit, whether the object
\* count was read, the next uid at entry and exit, and the objects read.
processChunk(strs, p, info, index) ==
    LET chunkKey == ChunkKeyOf(info.cx, info.cy, info.cz)
        ev(after, err, countRead, objects) ==
            [index |-> index, key |-> chunkKey, declared |-> info.offset,
             at |-> p.reader.totalOffset,
             atEnd |-> after.reader.totalOffset,
             countBefore |-> p.currentObjectCount,
             countAfter |-> after.currentObjectCount,
             err |-> err, countRead |-> countRead, objects |-> objects]
        objects(loop) ==
            IF loop.err # "none"
            THEN [p |-> loop.p, err |-> loop.err,
                  ev |-> ev(loop.p, loop.err, TRUE, loop.objects)]
            ELSE [p |-> [loop.p EXCEPT
                           !.chunkMap = MapSet(@, chunkKey, loop.bounds)],
                  err |-> "none",
                  ev |-> ev(loop.p, "none", TRUE, loop.objects)]
        count(cnt) ==
            IF cnt.err # "none"
            THEN [p |-> [p EXCEPT !.reader = cnt.r], err |-> cnt.err,
                  ev |-> ev([p EXCEPT !.reader = cnt.r], cnt.err, FALSE, <<>>)]
            ELSE objects(processObjects(strs, [p EXCEPT !.reader = cnt.r],
                             info, 0, getUint16(cnt.val),
                             [start |-> p.currentObjectCount,
                              end |-> p.currentObjectCount]))
    IN  IF bytesLeftover(info, p.reader) # 0
        THEN [p |-> p, err |-> "Chunk offset error",
              ev |-> ev(p, "Chunk offset error", FALSE, <<>>)]
        ELSE count(readField(strs, p.reader, "u16"))

RECURSIVE processRange(_, _, _, _)
\* The for loop of processNextChunks over [i, endIndex).
processRange(strs, p, i, last) ==
    LET both(c, rest) == [p |-> rest.p, err |-> rest.err,
                          chunks |-> <<c.ev>> \o rest.chunks]
        first(c) ==
            IF c.err # "none"
            THEN [p |-> c.p, err |-> c.err, chunks |-> <<c.ev>>]
            ELSE both(c, processRange(strs, c.p, i + 1, last))
    IN  IF i >= last THEN [p |-> p, err |-> "none", chunks |-> <<>>]
        ELSE first(processChunk(strs, p, ArrayAt(p.chunkInfos, i).v, i))

\* endIndex that takes every remaining entry in one invocation.
endIndex_all(p) == Len(p.chunkInfos)

\* endIndex that takes one entry per invocation.
endIndex_one(p) == Min(p.currentChunkIndex + 1, Len(p.chunkInfos))

\* const endIndex = Math.min(currentChunkIndex + CHUNKS_PER_CYCLE,
\*                           chunkInfos.length) (line 453).
endIndex(p) ==
    Min(p.currentChunkIndex + CHUNKS_PER_CYCLE, Len(p.chunkInfos))

\* The end of processNextChunks moving the index on after a throw as well.
afterChunkLoop_advancing(run, last) ==
    IF last >= Len(run.p.chunkInfos)
    THEN [p |-> [run.p EXCEPT !.currentChunkIndex = last,
                              !.isComplete = TRUE],
          ret |-> TRUE, err |-> run.err, chunks |-> run.chunks]
    ELSE [p |-> [run.p EXCEPT !.currentChunkIndex = last],
          ret |-> FALSE, err |-> run.err, chunks |-> run.chunks]

\* processNextChunks() after its for loop (lines 459-469): a throw in the
\* loop leaves the method there; otherwise the index moves to `last` and
\* the parser completes when that is the end of the index.
afterChunkLoop(run, last) ==
    IF run.err # "none"
    THEN [p |-> run.p, ret |-> FALSE, err |-> run.err, chunks |-> run.chunks]
    ELSE IF last >= Len(run.p.chunkInfos)
    THEN [p |-> [run.p EXCEPT !.currentChunkIndex = last,
                              !.isComplete = TRUE],
          ret |-> TRUE, err |-> "none", chunks |-> run.chunks]
    ELSE [p |-> [run.p EXCEPT !.currentChunkIndex = last],
          ret |-> FALSE, err |-> "none", chunks |-> run.chunks]

\* processNextChunks that numbers the objects of every invocation from 0
\* again, as if the uid counter were a local of the call.
processNextChunks_localCount(strs, p) ==
    IF ~p.headerParsed \/ p.isComplete
    THEN [p |-> p, ret |-> p.isComplete, err |-> "none", chunks |-> <<>>]
    ELSE afterChunkLoop(processRange(strs,
                                     [p EXCEPT !.currentObjectCount = 0],
                                     p.currentChunkIndex, endIndex(p)),
                        endIndex(p))

\* processNextChunks(): ret is the boolean returned (when nothing threw),
\* chunks the processChunk calls it made.
processNextChunks(strs, p) ==
    IF ~p.headerParsed \/ p.isComplete
    THEN [p |-> p, ret |-> p.isComplete, err |-> "none", chunks |-> <<>>]
    ELSE afterChunkLoop(processRange(strs, p, p.currentChunkIndex,
                                     endIndex(p)),
                        endIndex(p))

\* new MapObjectData(...): objectCount is the array's length.
MapObjectData(chunkObjects, chunkSegments, chunkSize, uidToChunk) ==
    [chunkObjects |-> chunkObjects,
     chunkSegments |-> chunkSegments,
     chunkSize |-> chunkSize,
     objectCount |-> chunkObjects.length,
     uidToChunk |-> uidToChunk]

\* getResults that hands out whatever has been parsed.
getResults_always(p) ==
    [isNull |-> FALSE,
     data |-> MapObjectData(p.chunkObjects, p.chunkMap, p.chunkSize,
                            p.uidToChunk)]

\* getResults(): null until the parser is complete.
getResults(p) ==
    IF ~p.isComplete THEN [isNull |-> TRUE]
    ELSE [isNull |-> FALSE,
          data |-> MapObjectData(p.chunkObjects, p.chunkMap, p.chunkSize,
                                 p.uidToChunk)]

isParsingComplete(p) == p.isComplete

(***************************************************************************)
(* The compiler's binary writer (Program.cs:279-411)                       *)
(***************************************************************************)
WriteUInt16(v) == <<v % 256, (v \div 256) % 256>>

WriteInt16(v) == WriteUInt16(IF v < 0 THEN v + 65536 ELSE v)

\* Exact for 0 <= v < 2^31.
WriteUInt32(v) ==
    <<v % 256, (v \div 256) % 256, (v \div 65536) % 256,
      (v \div 16777216) % 256>>

RECURSIVE Write7BitEncodedInt(_)
\* BinaryWriter's length prefix: 7 bits per byte, lowest group first.
Write7BitEncodedInt(v) ==
    IF v >= 128 THEN <<(v % 128) + 128>> \o Write7BitEncodedInt(v \div 128)
    ELSE <<v>>

\* BinaryWriter.Write(string) for text of characters below 128 (UTF-8
\* writes each as one byte).
WriteString(text) == Write7BitEncodedInt(Len(text)) \o text

\* float32 values the files hold, as their little-endian bytes.
Float64Point0 == <<0, 0, 128, 66>>

Float1Point0 == <<0, 0, 128, 63>>

Float0Point0 == <<0, 0, 0, 0>>

\* 30.0f, a chunk size equal to the vehicle capture radius.
Float30Point0 == <<0, 0, 240, 65>>

WriteVector(v) == v[1] \o v[2] \o v[3]

WriteTriple(t) == WriteUInt16(t[1]) \o WriteUInt16(t[2]) \o WriteUInt16(t[3])

\* One object record (lines 347-393).
WriteObject(o) ==
    WriteTriple(o.pos)
    \o <<IF o.scaleIdx >= 255 THEN 255 ELSE o.scaleIdx>>
    \o <<IF o.rotIdx >= 255 THEN 255 ELSE o.rotIdx>>
    \o WriteUInt16(o.typeIdx)
    \o (IF o.scaleIdx >= 255 THEN WriteTriple(o.customScale) ELSE <<>>)
    \o (IF o.rotIdx >= 255 THEN WriteTriple(o.customRot) ELSE <<>>)

\* One chunk payload (lines 337-396).
WriteChunk(objs) ==
    WriteUInt16(Len(objs))
    \o Flatten([i \in 1..Len(objs) |-> WriteObject(objs[i])])

\* Everything before the chunk index (lines 283-316).
WriteHeaderAndPalettes(f) ==
    WriteUInt16(1)
    \o f.chunkSize
    \o WriteString(f.mapType)
    \o WriteUInt32(f.objectCount)
    \o WriteUInt16(Len(f.chunks))
    \o WriteVector(f.minBounds) \o WriteVector(f.maxBounds)
    \o WriteUInt16(Len(f.scalePalette))
    \o WriteUInt16(Len(f.rotationPalette))
    \o WriteUInt16(Len(f.typePalette))
    \o Flatten([i \in 1..Len(f.scalePalette) |-> WriteVector(f.scalePalette[i])])
    \o Flatten([i \in 1..Len(f.rotationPalette) |->
                   WriteVector(f.rotationPalette[i])])
    \o Flatten([i \in 1..Len(f.typePalette) |-> WriteString(f.typePalette[i])])

RECURSIVE SumLen(_, _)
\* Total length of the first k byte sequences of seqs.
SumLen(seqs, k) == IF k = 0 THEN 0 ELSE Len(seqs[k]) + SumLen(seqs, k - 1)

\* One chunk-index record (lines 322-328 and 402-408).
WriteIndexEntry(key, offset, length) ==
    WriteInt16(key[1]) \o WriteInt16(key[2]) \o WriteInt16(key[3])
    \o WriteUInt32(offset) \o WriteUInt32(length)

\* chunkOffsets counted from the end of the chunk index.
ChunkOffset_relative(f, i) ==
    SumLen([k \in 1..Len(f.chunks) |-> WriteChunk(f.chunks[k].objs)], i - 1)

\* chunkOffsets[i] (1-based i): the stream position where chunk i's
\* payload starts (lines 336-340): after the header, the palettes, the
\* (first dummy) index and the payloads before it.
ChunkOffset(f, i) ==
    LET payloads == [k \in 1..Len(f.chunks) |-> WriteChunk(f.chunks[k].objs)]
    IN  Len(WriteHeaderAndPalettes(f))
        + Len(f.chunks) * Len(WriteIndexEntry(<<0, 0, 0>>, 0, 0))
        + SumLen(payloads, i - 1)

\* The whole file (lines 279-411).  f.offsetDelta[i] is added to the
\* offset and f.lengthDelta[i] to the length written for chunk i: all zero
\* in what the compiler writes.
WriteBinary(f) ==
    LET payloads == [k \in 1..Len(f.chunks) |-> WriteChunk(f.chunks[k].objs)]
        index == [k \in 1..Len(f.chunks) |->
                    WriteIndexEntry(f.chunks[k].key,
                                    ChunkOffset(f, k) + f.offsetDelta[k],
                                    Len(payloads[k]) + f.lengthDelta[k])]
    IN  WriteHeaderAndPalettes(f) \o Flatten(index) \o Flatten(payloads)

(***************************************************************************)
(* Files the parser is run on                                              *)
(***************************************************************************)
\* Most chunks a file declares.
MaxChunks == 4

\* Most objects in a chunk.
MaxObjects == 2

\* Most bytes cut from the end of a truncated file.
MaxCut == 3

\* Most processNextChunks invocations the parser harness makes on a
\* parser that has not failed.
MaxInvocations == 4

\* Object templates.  G: common type, palette scale and rotation.
\* M: a type only the map-specific table resolves.  U: a type no table
\* resolves.  V: unresolved, with inline scale and rotation.  C: resolved,
\* inline scale.  B: resolved, scale index outside the palette.
ObjectKinds == {"G", "M", "U", "V", "C", "B"}

\* The object of a kind at place j of chunk c (raw position from both).
ObjectOfKind(kind, c, j) ==
    [pos |-> <<(4096 * j) % 65536, 65535, (257 * c) % 65536>>,
     scaleIdx |-> CASE kind \in {"V", "C"} -> 255
                    [] kind = "B" -> 7
                    [] OTHER -> 0,
     rotIdx |-> IF kind = "V" THEN 255 ELSE 0,
     typeIdx |-> CASE kind = "M" -> 1
                   [] kind \in {"U", "V"} -> 2
                   [] OTHER -> 0,
     customScale |-> <<655, 1310, 65535>>,
     customRot |-> <<0, 32768, 65535>>,
     kind |-> kind]

\* All sequences over S of length at most n.
RECURSIVE SeqsUpTo(_, _)
SeqsUpTo(S, n) ==
    IF n = 0 THEN {<<>>}
    ELSE LET shorter == SeqsUpTo(S, n - 1)
         IN  shorter \cup {Append(q, x) : q \in shorter, x \in S}

\* kinds rotated left by k places: chunk c of a file holds the file's
\* kinds rotated by c - 1, so that the chunks differ.
Rotate(kinds, k) ==
    [i \in 1..Len(kinds) |-> kinds[((i - 1 + k) % Len(kinds)) + 1]]

\* The grid cell of chunk c: negative and positive coordinates.
ChunkKeyAt(c) == <<c - 2, 0, 1 - c>>

\* A file of n chunks made of the given kinds, for a map type, with the
\* offset written for chunk `bad` (0: none) off by one.
FileOf(n, kinds, mapType, bad) ==
    [chunkSize |-> Float64Point0,
     mapType |-> mapType,
     objectCount |-> n * Len(kinds),
     minBounds |-> <<Float0Point0, Float0Point0, Float0Point0>>,
     maxBounds |-> <<Float64Point0, Float64Point0, Float64Point0>>,
     scalePalette |-> <<<<Float1Point0, Float1Point0, Float1Point0>>>>,
     rotationPalette |-> <<<<Float0Point0, Float0Point0, Float0Point0>>>>,
     typePalette |-> <<NameFoo, NameBar, NameZed>>,
     chunks |-> [c \in 1..n |->
                    [key |-> ChunkKeyAt(c),
                     objs |-> [j \in 1..Len(kinds) |->
                                  ObjectOfKind(Rotate(kinds, c - 1)[j], c, j)]]],
     offsetDelta |-> [c \in 1..n |-> IF c = bad THEN 1 ELSE 0],
     lengthDelta |-> [c \in 1..n |-> 0]]

\* A stored file: the description, the bytes stored (the written file
\* less `cut` bytes at its end) and the layout of the stored blocks.
FixtureOf(file, cut, headShort) ==
    LET all == WriteBinary(file)
        bytes == SubSeq(all, 1, Len(all) - cut)
    IN  [kind |-> "file", file |-> file, cut |-> cut,
         bytes |-> bytes,
         layout |-> IF headShort THEN HeadShortLayout(Len(bytes))
                    ELSE CompilerLayout(Len(bytes))]

\* Whole files: every chunk count, every content, a map type with its own
\* table and one without.
CleanFixtures ==
    {FixtureOf(FileOf(n, kinds, mapType, 0), 0, FALSE) :
        n \in 0..MaxChunks,
        kinds \in SeqsUpTo(ObjectKinds, MaxObjects),
        mapType \in {MapAbbasid, <<>>}}

\* Damaged files: one chunk offset off by one, one chunk length off by
\* one, or the end cut off; cut files in both layouts (a short last block,
\* or full blocks to the end).
DamagedFixtures ==
    {FixtureOf(FileOf(n, kinds, MapAbbasid, bad), 0, FALSE) :
        n \in 1..MaxChunks, kinds \in SeqsUpTo(ObjectKinds, 1),
        bad \in 1..MaxChunks}
    \cup
    {FixtureOf([FileOf(n, kinds, MapAbbasid, 0) EXCEPT
                   !.lengthDelta = [c \in 1..n |-> IF c = bad THEN 1 ELSE 0]],
               0, FALSE) :
        n \in 1..MaxChunks, kinds \in SeqsUpTo(ObjectKinds, 1),
        bad \in 1..MaxChunks}
    \cup
    {FixtureOf(FileOf(n, kinds, MapAbbasid, 0), cut, headShort) :
        n \in 1..MaxChunks, kinds \in SeqsUpTo(ObjectKinds, 1),
        cut \in 1..MaxCut, headShort \in BOOLEAN}

Fixtures == CleanFixtures \cup DamagedFixtures

\* An object record of a kind (see ObjectKinds) with the given raw
\* position.
ArenaObject(kind, raw) == [ObjectOfKind(kind, 1, 1) EXCEPT !.pos = raw]

\* A file of the given chunks for the map with its own table.
ArenaFile(chunks) ==
    [FileOf(0, <<>>, MapAbbasid, 0) EXCEPT
        !.objectCount = SumSeq([c \in 1..Len(chunks) |-> Len(chunks[c].objs)]),
        !.chunks = chunks,
        !.offsetDelta = [c \in 1..Len(chunks) |-> 0],
        !.lengthDelta = [c \in 1..Len(chunks) |-> 0]]

\* The first: objects at (0,0,0) and (64,0,0) in cell (0,0,0), of the
\* common and the map's own type, and one at (-64,0,0) in cell (-1,0,0).
\* The second: cell (0,0,0) with, between its two objects, a record whose
\* scale index is outside the palette.
\* The third, with chunks of size 30: an object written at the top of
\* cell (2,-1,0), which the parser places at (64,0,0), and one at
\* (64,0,0) in cell (2,0,0); 8738 is the raw value of 4 in 30.
ArenaFiles ==
    {ArenaFile(<<[key |-> <<0, 0, 0>>,
                  objs |-> <<ArenaObject("G", <<0, 0, 0>>),
                             ArenaObject("M", <<65535, 0, 0>>)>>],
                 [key |-> <<-1, 0, 0>>,
                  objs |-> <<ArenaObject("G", <<0, 0, 0>>)>>]>>),
     ArenaFile(<<[key |-> <<0, 0, 0>>,
                  objs |-> <<ArenaObject("G", <<0, 0, 0>>),
                             ArenaObject("B", <<0, 0, 0>>),
                             ArenaObject("M", <<65535, 0, 0>>)>>]>>),
     [ArenaFile(<<[key |-> <<2, -1, 0>>,
                   objs |-> <<ArenaObject("G", <<8738, 65535, 0>>)>>],
                  [key |-> <<2, 0, 0>>,
                   objs |-> <<ArenaObject("G", <<8738, 0, 0>>)>>]>>)
        EXCEPT !.chunkSize = Float30Point0]}

\* The arena datasets as stored files.
ArenaFixtures == {FixtureOf(file, 0, FALSE) : file \in ArenaFiles}

\* The whole file, with the chunk offsets the writer computes.
Whole(fx) ==
    /\ fx.kind = "file"
    /\ fx.cut = 0
    /\ \A c \in 1..Len(fx.file.chunks) :
          fx.file.offsetDelta[c] = 0 /\ fx.file.lengthDelta[c] = 0

\* A file as the compiler writes it: whole, and every palette index it
\* holds is 255 or inside its palette.
WellFormed(fx) ==
    /\ Whole(fx)
    /\ \A c \in 1..Len(fx.file.chunks) :
          \A j \in 1..Len(fx.file.chunks[c].objs) :
             LET o == fx.file.chunks[c].objs[j]
             IN  /\ o.scaleIdx = 255 \/ o.scaleIdx < Len(fx.file.scalePalette)
                 /\ o.rotIdx = 255 \/ o.rotIdx < Len(fx.file.rotationPalette)

(***************************************************************************)
(* Handlers                                                                *)
(***************************************************************************)
\* The stream the compiler stored, one file per behaviour.
Init ==
    /\ \E fx \in Fixtures \cup ArenaFixtures :
          /\ fixture = fx
          /\ strings = StoreBlocks(SplitBytes(fx.bytes, fx.layout))
    /\ reader = NewAsyncBinaryReader(NewSpatialSteamReader)
    /\ consumed = <<>>
    /\ lastRead = NoRead
    /\ parser = NoParser
    /\ objectManager = NoManager
    /\ lastCall = NoCall
    /\ history = NoHistory
    /\ game = NoGame

\* A call that never returns ends the script: nothing runs after it.
Running == lastCall.err # "never returns"

\* What a call leaves in lastCall.
CallOf(op, before, res) ==
    [op |-> op, err |-> res.err, ret |-> res.ret, chunks |-> res.chunks,
     readBytes |-> IF res.p.exists /\ before.exists
                   THEN res.p.reader.totalOffset - before.reader.totalOffset
                   ELSE 0,
     indexBefore |-> IF before.exists THEN before.currentChunkIndex ELSE 0,
     headerBefore |-> before.exists /\ before.headerParsed,
     completeBefore |-> before.exists /\ before.isComplete]

\* The record after one processNextChunks invocation.
HistoryAfter(before, res) ==
    LET returned == {k \in 1..Len(res.chunks) : res.chunks[k].err = "none"}
    IN  IF ~before.headerParsed \/ before.isComplete
        THEN [history EXCEPT !.retried = history.faulted]
        ELSE IF history.faulted
        THEN [history EXCEPT !.retried = TRUE,
                             !.processed = @ + Cardinality(returned)]
        ELSE [faulted |-> res.err # "none",
              retried |-> FALSE,
              cycles |-> history.cycles + 1,
              processed |-> history.processed + Cardinality(returned),
              log |-> history.log \o res.chunks]

\* new DynamicObjectManager(mapData), lines 581-587.
NewDynamicObjectManager(mapData) ==
    [exists |-> TRUE,
     mapData |-> mapData,
     spawnedObjects |-> <<>>,
     spawnedTypes |-> <<>>,
     trackedPoints |-> <<>>,
     desiredObjectSet |-> <<>>,
     objectOwnership |-> <<>>,
     uidToChunk |-> mapData.uidToChunk]

\* parser = new IncrementalDataParser(), as a call of its own.
Construct ==
    /\ Running
    /\ ~parser.exists
    /\ lastCall.op = "none"
    /\ LET c == NewIncrementalDataParser(strings)
       IN  /\ parser' = IF c.err = "none" THEN c.p ELSE NoParser
           /\ lastCall' = CallOf("constructor", NoParser,
                                 [p |-> NoParser, err |-> c.err,
                                  ret |-> FALSE, chunks |-> <<>>])
    /\ UNCHANGED <<strings, reader, consumed, lastRead, fixture,
                   objectManager, history, game>>

\* parser.parseDataPalette(), as a call of its own.
ParseDataPalette ==
    /\ Running
    /\ parser.exists
    /\ LET res == parseDataPalette(strings, parser)
       IN  /\ parser' = res.p
           /\ lastCall' = CallOf("parseDataPalette", parser,
                                 [p |-> res.p, err |-> res.err,
                                  ret |-> FALSE, chunks |-> <<>>])
    /\ UNCHANGED <<strings, reader, consumed, lastRead, fixture,
                   objectManager, history, game>>

\* parser.processNextChunks(), as a call of its own.
ProcessNextChunks ==
    /\ Running
    /\ parser.exists
    /\ history.cycles < MaxInvocations
    /\ LET res == processNextChunks(strings, parser)
       IN  /\ parser' = res.p
           /\ lastCall' = CallOf("processNextChunks", parser, res)
           /\ history' = HistoryAfter(parser, res)
    /\ UNCHANGED <<strings, reader, consumed, lastRead, fixture,
                   objectManager, game>>

ParserNext == Construct \/ ParseDataPalette \/ ProcessNextChunks

ParserSpec == Init /\ [][ParserNext]_vars

(***************************************************************************)
(* Properties of the readers (ReaderSpec)                                  *)
(***************************************************************************)
\* Bytes a fixed-width read asks for.
AskedBytes(op) ==
    CASE op = "readByte" -> 1
      [] op = "readUInt16" -> 2
      [] op = "readUInt32" -> 4
      [] OTHER -> 0

\* The last read was a fixed-width read asking for more bytes than the
\* stream had left when it was called.
AskedPastEnd ==
    /\ lastRead.op \in {"readByte", "readUInt16", "readUInt32"}
    /\ AskedBytes(lastRead.op) > lastRead.left

\* C2: a read that asks for more bytes than remain in the stream ends by
\* raising "Unexpected EOF", whatever the block layout: it neither runs for
\* ever nor returns data.
C2_ReadPastEndRaisesEof ==
    AskedPastEnd =>
        /\ lastRead.err = "Unexpected EOF"
        /\ lastRead.bytes = <<>>

\* a is a prefix of b.
IsPrefix(a, b) == Len(a) <= Len(b) /\ a = SubSeq(b, 1, Len(a))

\* C7: over any sequence of typed reads the bytes handed out are the next
\* bytes of the stream, none skipped or repeated, and totalOffset is their
\* number and never decreases.
C7_ReaderFidelity ==
    /\ IsPrefix(consumed, fixture.bytes)
    /\ reader.totalOffset = Len(consumed)
    /\ lastRead.before <= reader.totalOffset

(***************************************************************************)
(* Properties of the parser (ParserSpec)                                   *)
(***************************************************************************)
\* The processChunk calls of the last invocation.
LastChunks == {lastCall.chunks[k] : k \in 1..Len(lastCall.chunks)}

\* C1: processChunk decodes a chunk only when totalOffset equals the
\* chunk's declared offset; on a mismatch it raises the chunk-offset error
\* before it reads the object count, and accepts no object of the chunk.
\* The calls of an invocation take the index entries in order.
C1_ChunkOffsetChecked ==
    \A k \in 1..Len(lastCall.chunks) :
       LET ev == lastCall.chunks[k]
       IN  /\ ev.index = lastCall.indexBefore + (k - 1)
           /\ ev.at # ev.declared =>
                 /\ ev.err = "Chunk offset error"
                 /\ ~ev.countRead
                 /\ ev.objects = <<>>
                 /\ ev.atEnd = ev.at
                 /\ ev.countAfter = ev.countBefore
           /\ (ev.countRead \/ ev.objects # <<>> \/ ev.atEnd # ev.at) =>
                 ev.at = ev.declared

\* An invocation decoded a chunk and accepted an object of it, then met a
\* chunk whose declared offset is not the read position.
C1_Witness ==
    /\ Len(lastCall.chunks) = 2
    /\ lastCall.chunks[1].err = "none"
    /\ lastCall.chunks[1].countAfter > lastCall.chunks[1].countBefore
    /\ lastCall.chunks[2].at # lastCall.chunks[2].declared
    /\ lastCall.chunks[2].err = "Chunk offset error"

\* C4: getResults() is null while not every chunk-index entry has been
\* processed (before parseDataPalette, between invocations, after an
\* error), and is the dataset exactly when the parser is Complete.
C4_ResultsOnlyWhenComplete ==
    parser.exists =>
       /\ (~parser.headerParsed
           \/ history.processed < Len(parser.chunkInfos)
           \/ history.faulted) => getResults(parser).isNull
       /\ getResults(parser).isNull <=> ~parser.isComplete
       /\ ~getResults(parser).isNull =>
             /\ parser.currentChunkIndex = Len(parser.chunkInfos)
             /\ history.processed = Len(parser.chunkInfos)
             /\ getResults(parser).data.chunkSegments = parser.chunkMap
             /\ getResults(parser).data.chunkObjects = parser.chunkObjects

\* Between two invocations: some chunks processed and objects accepted,
\* more to come, and no result yet.
C4_Witness ==
    /\ parser.exists
    /\ parser.headerParsed
    /\ parser.currentChunkIndex > 0
    /\ parser.currentChunkIndex < Len(parser.chunkInfos)
    /\ parser.currentObjectCount > 0
    /\ getResults(parser).isNull

\* C5: an invocation of processNextChunks processes at most 2 entries: a
\* successful one moves currentChunkIndex by min(2, chunkCount - index);
\* one made before parseDataPalette or after completion processes no chunk
\* and reads no byte.
C5_AtMostTwoChunksPerCycle ==
    (lastCall.op = "processNextChunks") =>
       /\ Len(lastCall.chunks) <= 2
       /\ (lastCall.err = "none" /\ lastCall.headerBefore
           /\ ~lastCall.completeBefore) =>
             /\ parser.currentChunkIndex =
                   lastCall.indexBefore
                   + Min(2, Len(parser.chunkInfos) - lastCall.indexBefore)
             /\ Len(lastCall.chunks) = parser.currentChunkIndex
                                       - lastCall.indexBefore
       /\ (~lastCall.headerBefore \/ lastCall.completeBefore) =>
             /\ lastCall.chunks = <<>>
             /\ lastCall.readBytes = 0
             /\ lastCall.err = "none"
             /\ parser.currentChunkIndex = lastCall.indexBefore

\* A successful invocation that processed two entries and left more.
C5_Witness ==
    /\ lastCall.op = "processNextChunks"
    /\ lastCall.err = "none"
    /\ Len(lastCall.chunks) = 2
    /\ parser.currentChunkIndex < Len(parser.chunkInfos)

\* Invocations a file of n chunks needs: max(1, ceil(n / 2)).
CyclesNeeded(n) == Max(1, (n + 1) \div 2)

\* C6: on a well-formed stream of n chunks, with the palettes parsed,
\* processNextChunks reaches Complete at its max(1, ceil(n/2))-th
\* invocation and not before; once Complete, it returns true and the
\* parser stays Complete.
C6_CompletesInExpectedCycles ==
    /\ (WellFormed(fixture) /\ parser.exists /\ parser.headerParsed) =>
          /\ ~history.faulted
          /\ history.cycles <= CyclesNeeded(Len(fixture.file.chunks))
          /\ parser.isComplete <=>
                history.cycles = CyclesNeeded(Len(fixture.file.chunks))
    /\ lastCall.completeBefore =>
          /\ parser.isComplete
          /\ lastCall.op = "processNextChunks" =>
                lastCall.ret /\ lastCall.err = "none"

\* Three chunks, complete after the second invocation.
C6_Witness ==
    /\ WellFormed(fixture)
    /\ parser.exists
    /\ Len(fixture.file.chunks) = 3
    /\ parser.isComplete
    /\ history.cycles = 2
    /\ lastCall.op = "processNextChunks"
    /\ lastCall.completeBefore

\* What becomes of a written object, by its kind (see ObjectKinds).
ExpectedOutcome(o, mapType) ==
    CASE o.kind \in {"U", "V"} -> "unresolved"
      [] o.kind = "M" -> IF mapType = MapAbbasid THEN "accepted"
                         ELSE "unresolved"
      [] o.kind = "B" -> "failed"
      [] OTHER -> "accepted"

\* Bytes of an object's record: the base record and the inline overrides.
RecordSize(scaleIdx, rotIdx) ==
    10 + (IF scaleIdx = 255 THEN 6 ELSE 0) + (IF rotIdx = 255 THEN 6 ELSE 0)

\* The written objects of a file that are accepted.
ExpectedAccepted(file) ==
    {<<c, j>> \in (1..Len(file.chunks)) \X (1..MaxObjects + 1) :
        /\ j <= Len(file.chunks[c].objs)
        /\ ExpectedOutcome(file.chunks[c].objs[j], file.mapType) = "accepted"}

\* C8: an object whose type name resolves in neither table is left out of
\* the dataset and takes no uid; its whole record, inline scale and
\* rotation included, is consumed, and the objects after it in the chunk
\* and the later chunks are parsed as written.
C8_UnresolvedTypeSkipped ==
    /\ \A ev \in LastChunks :
          /\ \A j \in 1..Len(ev.objects) :
                (ev.objects[j].outcome = "unresolved") =>
                   /\ ev.objects[j].uidAfter = ev.objects[j].uidBefore
                   /\ ev.objects[j].size =
                         RecordSize(ev.objects[j].scaleIdx,
                                    ev.objects[j].rotIdx)
          /\ Whole(fixture) =>
                LET written == fixture.file.chunks[ev.index + 1].objs
                IN  /\ ev.err = "none"
                    /\ Len(ev.objects) = Len(written)
                    /\ \A j \in 1..Len(written) :
                          /\ ev.objects[j].typeIdx = written[j].typeIdx
                          /\ ev.objects[j].scaleIdx = written[j].scaleIdx
                          /\ ev.objects[j].rotIdx = written[j].rotIdx
                          /\ ev.objects[j].outcome =
                                ExpectedOutcome(written[j],
                                                fixture.file.mapType)
    /\ (fixture.kind = "file" /\ Whole(fixture) /\ parser.exists
        /\ parser.isComplete) =>
          /\ Cardinality(DOMAIN parser.chunkObjects.at) =
                Cardinality(ExpectedAccepted(fixture.file))
          /\ \A uid \in DOMAIN parser.chunkObjects.at :
                parser.chunkObjects.at[uid].typeId \in {11, 22}

\* A chunk whose first object is unresolved and carries inline scale and
\* rotation, followed in it by an accepted object, then a later chunk.
C8_Witness ==
    /\ Len(lastCall.chunks) = 2
    /\ Len(lastCall.chunks[1].objects) = 2
    /\ lastCall.chunks[1].objects[1].outcome = "unresolved"
    /\ lastCall.chunks[1].objects[1].scaleIdx = 255
    /\ lastCall.chunks[1].objects[1].rotIdx = 255
    /\ lastCall.chunks[1].objects[2].outcome = "accepted"
    /\ lastCall.chunks[2].err = "none"
    /\ lastCall.chunks[2].countAfter > lastCall.chunks[2].countBefore

RECURSIVE AcceptedUids(_)
\* The uids given to the accepted objects of the logged chunks, in parse
\* order.
AcceptedUids(log) ==
    IF log = <<>> THEN <<>>
    ELSE LET objs == SelectSeq(Head(log).objects,
                               LAMBDA o : o.outcome = "accepted")
         IN  [k \in 1..Len(objs) |-> objs[k].uidBefore]
             \o AcceptedUids(Tail(log))

\* C9: the k-th object accepted in parse order has uid k-1: the uids of
\* the accepted objects are 0..accepted-1, without gap or repeat, however
\* many objects were skipped.
C9_DenseUids ==
    /\ \A k \in 1..Len(AcceptedUids(history.log)) :
          AcceptedUids(history.log)[k] = k - 1
    /\ (parser.exists /\ ~history.faulted) =>
          DOMAIN parser.chunkObjects.at
             = 0..(Len(AcceptedUids(history.log)) - 1)

\* Objects accepted from the chunk of a logged processChunk call.
AcceptedIn(ev) ==
    Cardinality({j \in 1..Len(ev.objects) :
                    ev.objects[j].outcome = "accepted"})

\* C10: on completion (chunk keys distinct) the chunk-segment map has one
\* span per chunk; in index order the spans start at 0, each starts where
\* the one before ends, the last ends at the number of accepted objects;
\* a span is as long as the objects accepted from its chunk, and every
\* uid in it maps back to the chunk's key.
C10_SpansContiguous ==
    (parser.exists /\ parser.isComplete) =>
       LET n == Len(parser.chunkInfos)
           keyOf(i) == history.log[i].key
           span(i) == parser.chunkMap[keyOf(i)]
       IN  /\ Len(history.log) = n
           /\ DOMAIN parser.chunkMap = {keyOf(i) : i \in 1..n}
           /\ Cardinality(DOMAIN parser.chunkMap) = n
           /\ n > 0 => /\ span(1).start = 0
                       /\ span(n).end = Len(AcceptedUids(history.log))
           /\ \A i \in 1..(n - 1) : span(i + 1).start = span(i).end
           /\ \A i \in 1..n :
                 /\ span(i).end - span(i).start = AcceptedIn(history.log[i])
                 /\ \A uid \in span(i).start..(span(i).end - 1) :
                       /\ uid \in DOMAIN parser.uidToChunk
                       /\ parser.uidToChunk[uid] = keyOf(i)

(***************************************************************************)
(* Properties of the host callbacks (Spec)                                 *)
(***************************************************************************)

\* C3: once an invocation of processNextChunks has raised a fatal error,
\* no later tick makes isParsingComplete() true or getResults() non-null,
\* and the object manager is never built from a partly parsed dataset.
C3_NoCompletionAfterFault ==
    /\ history.faulted =>
          /\ ~isParsingComplete(parser)
          /\ getResults(parser).isNull
          /\ ~objectManager.exists
    /\ objectManager.exists =>
          /\ parser.isComplete
          /\ history.processed = Len(parser.chunkInfos)
          /\ objectManager.mapData = getResults(parser).data

\* A tick after the one that raised the error, with objects already
\* accepted, raising again.
C3_Witness ==
    /\ history.faulted
    /\ history.retried
    /\ lastCall.op = "OngoingGlobal"
    /\ lastCall.err \in {"Chunk offset error", "Unexpected EOF"}
    /\ parser.currentObjectCount > 0

\* C11: on completion MapObjectData.objectCount is the number of objects
\* accepted into the dataset (the number of uids given out); a file of one
\* chunk with two resolvable objects gives 2.
C11_ObjectCountIsAccepted ==
    (parser.exists /\ parser.isComplete) =>
       /\ getResults(parser).data.objectCount
             = Len(AcceptedUids(history.log))
       /\ getResults(parser).data.objectCount
             = Cardinality(DOMAIN parser.chunkObjects.at)

(***************************************************************************)
(* DynamicObjectManager (runtimeSpawn.ts:568-710)                          *)
(***************************************************************************)
\* The number a float32 holds, for the floats that hold an integer (the
\* exponent says how far the 24-bit significand is shifted).
float32Value(b) ==
    LET e == ((b[4] % 128) * 2) + (b[3] \div 128)
        m == ((b[3] % 128) * 65536) + (b[2] * 256) + b[1]
        magnitude == IF e = 0 THEN 0 ELSE (8388608 + m) \div Pow2(150 - e)
    IN  IF b[4] >= 128 THEN 0 - magnitude ELSE magnitude

\* One coordinate of an object's position as processChunk computes it
\* (lines 480 and 490-492): origin + (raw / 65535) * chunkSize.  The
\* quotient is a whole number for raw = 0 and raw = 65535, the only raw
\* values of the arena datasets, so the arithmetic is that of integers.
\* For the other files the quotient is rounded down, by less than 1; their
\* objects all lie at height 64, more than a radius and that 1 away from
\* every tracked point, which are at heights 0 and 30.
WorldCoord(c, raw, chunkSize) == (c * chunkSize) + ((raw * chunkSize) \div 65535)

\* obj.position of an object of the dataset.
PositionOf(obj, chunkSize) ==
    [i \in 1..3 |-> WorldCoord(obj.position.chunk[i], obj.position.raw[i],
                               chunkSize)]

\* Entries of a Map that is iterated: a sequence in insertion order.  set
\* on a key that is present keeps its place.
EntryIndex(entries, key) ==
    IF \E i \in 1..Len(entries) : entries[i].key = key
    THEN CHOOSE i \in 1..Len(entries) : entries[i].key = key
    ELSE 0

EntriesHas(entries, key) == EntryIndex(entries, key) # 0

EntriesGet(entries, key) == entries[EntryIndex(entries, key)].value

EntriesSet(entries, key, value) ==
    IF EntriesHas(entries, key)
    THEN [entries EXCEPT ![EntryIndex(entries, key)].value = value]
    ELSE Append(entries, [key |-> key, value |-> value])

EntriesDelete(entries, key) ==
    SelectSeq(entries, LAMBDA e : e.key # key)

\* mod.RuntimeSpawn_Common.BarrierStoneBlock_01_A (line 585).
BarrierStoneBlock_01_A == 33

\* mod.RuntimeSpawn_Abbasid.BarrierHesco_01_128x120 (line 586): the type
\* the name "Bar" resolves to on that map.
BarrierHesco_01_128x120 == RuntimeSpawn_Abbasid[NameBar]

\* this.teamMaterialMap after the constructor's two pushes.
teamMaterialMap == <<BarrierStoneBlock_01_A, BarrierHesco_01_128x120>>

\* teamMaterialMap[team] || objToSpawn.typeId (line 678): the array has no
\* element at a negative or too large index, and 0 is falsy.
desiredTypeId(team, typeId) ==
    IF team >= 0 /\ team < Len(teamMaterialMap)
       /\ teamMaterialMap[team + 1] # 0
    THEN teamMaterialMap[team + 1]
    ELSE typeId

\* map.delete(key) on a Map kept as a function.
MapDelete(m, key) == [k \in (DOMAIN m) \ {key} |-> m[k]]

\* The chunk keys the three nested loops of update() visit for a tracked
\* point (lines 641-651), in loop order: x outermost, z innermost.
SearchedCells(point, radius, chunkSize) ==
    LET chunkRadius == (radius + chunkSize - 1) \div chunkSize
        n == (2 * chunkRadius) + 1
        first == [i \in 1..3 |-> (point[i] \div chunkSize) - chunkRadius]
    IN  [k \in 1..(n * n * n) |->
            ChunkKeyOf(first[1] + ((k - 1) \div (n * n)),
                       first[2] + (((k - 1) \div n) % n),
                       first[3] + ((k - 1) % n))]

\* The indexes i the innermost loop (line 654) takes over those cells, in
\* order: the span of every cell the chunk-segment map has.
SearchedIndexes(mapData, cells) ==
    Flatten([k \in 1..Len(cells) |->
                IF cells[k] \in DOMAIN mapData.chunkSegments
                THEN [i \in 1..Max(0, mapData.chunkSegments[cells[k]].end
                                      - mapData.chunkSegments[cells[k]].start)
                        |-> mapData.chunkSegments[cells[k]].start + (i - 1)]
                ELSE <<>>])

\* dx * dx + dy * dy + dz * dz <= radius * radius (lines 656-659).
withinRadius(position, point, radius) ==
    LET d == [i \in 1..3 |-> position[i] - point[i]]
    IN  (d[1] * d[1]) + (d[2] * d[2]) + (d[3] * d[3]) <= radius * radius

\* this.objectOwnership.set(obj.uid, trackedPoint.team), line 660.
claimObject(ownership, uid, team) == EntriesSet(ownership, uid, team)

RECURSIVE claimLoop(_, _, _, _)
\* Lines 654-662 over the indexes a tracked point searches.  An index of
\* a span that holds no object makes obj undefined, and obj.position
\* throws a TypeError: the ownership set so far stays.
claimLoop(mapData, ownership, tp, indexes) ==
    IF indexes = <<>> THEN [ownership |-> ownership, err |-> "none"]
    ELSE IF Head(indexes) \notin DOMAIN mapData.chunkObjects.at
    THEN [ownership |-> ownership, err |-> "TypeError"]
    ELSE claimLoop(mapData,
             IF withinRadius(
                    PositionOf(mapData.chunkObjects.at[Head(indexes)],
                               float32Value(mapData.chunkSize)),
                    tp.point, tp.radius)
             THEN claimObject(ownership,
                      mapData.chunkObjects.at[Head(indexes)].uid, tp.team)
             ELSE ownership,
             tp, Tail(indexes))

RECURSIVE claimAll(_, _, _)
\* The loop over this.trackedPoints.values(), lines 637-667.
claimAll(mapData, ownership, points) ==
    LET next(c) ==
            IF c.err # "none" THEN c
            ELSE claimAll(mapData, c.ownership, Tail(points))
    IN  IF points = <<>> THEN [ownership |-> ownership, err |-> "none"]
        ELSE next(claimLoop(mapData, ownership, Head(points).value,
                     SearchedIndexes(mapData,
                         SearchedCells(Head(points).value.point,
                                       Head(points).value.radius,
                                       float32Value(mapData.chunkSize)))))

\* A respawn that forgets the old handle.
UnspawnObject_forgotten(host, handle) == host

\* mod.UnspawnObject(handle), line 683.
UnspawnObject(host, handle) ==
    [host EXCEPT !.unspawned = Append(@, handle)]

\* mod.SpawnObject(...), lines 687-692 and 698-703: a handle not given
\* out before.
SpawnObject(host) == [host EXCEPT !.issued = @ + 1]

\* A variant check that finds every spawned object stale.
staleVariant_always(spawnedType, desired) == TRUE

\* this.spawnedTypes.get(uid) !== desiredTypeId, line 682.
staleVariant(spawnedType, desired) == spawnedType # desired

\* A desired set that leaves out the objects already spawned.
desiredObjects_unspawned(m) ==
    SelectSeq([k \in 1..Len(m.objectOwnership) |-> m.objectOwnership[k].key],
              LAMBDA uid : uid \notin DOMAIN m.spawnedObjects)

\* this.desiredObjectSet after lines 670-673: every owned uid, in the
\* ownership map's order.
desiredObjects(m) ==
    [k \in 1..Len(m.objectOwnership) |-> m.objectOwnership[k].key]

RECURSIVE spawnLoop(_, _, _, _)
\* The loop over the desired set, lines 675-708.  calls lists the host
\* calls made, in order.
spawnLoop(m, host, desired, calls) ==
    LET uid == Head(desired)
        wanted == desiredTypeId(EntriesGet(m.objectOwnership, uid),
                                m.mapData.chunkObjects.at[uid].typeId)
        spawned(h) ==
            spawnLoop([m EXCEPT
                         !.spawnedObjects = MapSet(@, uid, h.issued),
                         !.spawnedTypes = MapSet(@, uid, wanted)],
                      h, Tail(desired),
                      Append(calls, [call |-> "SpawnObject", uid |-> uid,
                                     typeId |-> wanted,
                                     handle |-> h.issued]))
        respawned(h) ==
            spawnLoop([m EXCEPT
                         !.spawnedObjects = MapSet(@, uid, h.issued),
                         !.spawnedTypes = MapSet(@, uid, wanted)],
                      h, Tail(desired),
                      calls \o <<[call |-> "UnspawnObject", uid |-> uid,
                                  typeId |-> m.spawnedTypes[uid],
                                  handle |-> m.spawnedObjects[uid]],
                                 [call |-> "SpawnObject", uid |-> uid,
                                  typeId |-> wanted,
                                  handle |-> h.issued]>>)
    IN  IF desired = <<>>
        THEN [m |-> m, host |-> host, calls |-> calls]
        ELSE IF uid \notin DOMAIN m.spawnedObjects
        THEN spawned(SpawnObject(host))
        ELSE IF staleVariant(m.spawnedTypes[uid], wanted)
        THEN respawned(SpawnObject(
                           UnspawnObject(host, m.spawnedObjects[uid])))
        ELSE spawnLoop(m, host, Tail(desired), calls)

\* update(), lines 635-709.  A TypeError in the claim loop ends the call
\* there: the desired set and the spawned objects stay as they were.
update(m, host) ==
    LET claimed(c) ==
            IF c.err # "none"
            THEN [m |-> [m EXCEPT !.objectOwnership = c.ownership],
                  host |-> host, err |-> c.err, calls |-> <<>>]
            ELSE LET owned == [m EXCEPT !.objectOwnership = c.ownership]
                     done(s) == [m |-> s.m, host |-> s.host, err |-> "none",
                                 calls |-> s.calls]
                 IN  done(spawnLoop(
                              [owned EXCEPT
                                 !.desiredObjectSet = desiredObjects(owned)],
                              host, desiredObjects(owned), <<>>))
    IN  claimed(claimAll(m.mapData, m.objectOwnership, m.trackedPoints))

\* addOrUpdateTrackedPoint(key, position, radius, team), lines 592-595.
addOrUpdateTrackedPoint(m, key, position, radius, team) ==
    [m EXCEPT !.trackedPoints =
        EntriesSet(@, key, [point |-> position, radius |-> radius,
                            team |-> team])]

\* A removal that also gives up what the point's team owns.
removeTrackedPoint_revoking(m, key) ==
    [m EXCEPT
       !.trackedPoints = EntriesDelete(@, key),
       !.objectOwnership =
           IF EntriesHas(m.trackedPoints, key)
           THEN SelectSeq(@, LAMBDA e :
                    e.value # EntriesGet(m.trackedPoints, key).team)
           ELSE @]

\* removeTrackedPoint(key), lines 597-599.
removeTrackedPoint(m, key) ==
    [m EXCEPT !.trackedPoints = EntriesDelete(@, key)]

RECURSIVE scoreLoop(_, _, _)
\* The loop of getTeamScores (lines 611-614) from entry k on: scores gets
\* one more under the key team + shift for every ownership value.
scoreLoop(ownership, k, shift) ==
    LET counted(scores) ==
            MapSet(scores, ownership[k].value + shift,
                   (IF (ownership[k].value + shift) \in DOMAIN scores
                    THEN scores[ownership[k].value + shift] ELSE 0) + 1)
    IN  IF k < 1 THEN [teamId \in {1, 2} |-> 0]
        ELSE counted(scoreLoop(ownership, k - 1, shift))

\* getTeamScores(), lines 606-616: teamId = team + 1.
getTeamScores(m) ==
    scoreLoop(m.objectOwnership, Len(m.objectOwnership), 1)

RECURSIVE countLoop(_, _)
\* The loop of calculateCurrentWinner (lines 622-625) up to entry k:
\* team0Count and team1Count.
countLoop(ownership, k) ==
    LET counted(c) ==
            IF ownership[k].value = 0 THEN <<c[1] + 1, c[2]>>
            ELSE IF ownership[k].value = 1 THEN <<c[1], c[2] + 1>>
            ELSE c
    IN  IF k < 1 THEN <<0, 0>>
        ELSE counted(countLoop(ownership, k - 1))

\* A winner test that lets team 1 win a tie.
decideWinner_ties(team0Count, team1Count) ==
    IF team0Count >= team1Count THEN 1 ELSE 2

\* Lines 627-633: 1 or 2 for the team with more objects, 0 for a tie.
decideWinner(team0Count, team1Count) ==
    IF team0Count > team1Count THEN 1
    ELSE IF team1Count > team0Count THEN 2
    ELSE 0

\* calculateCurrentWinner(), lines 619-634.
calculateCurrentWinner(m) ==
    LET decided(c) == decideWinner(c[1], c[2])
    IN  decided(countLoop(m.objectOwnership, Len(m.objectOwnership)))

(***************************************************************************)
(* Datasets and tracked points the object manager is run on                *)
(***************************************************************************)
RECURSIVE parseTicks(_, _, _)
\* The ticks of OngoingGlobal that parse (lines 847-858), at most n.
parseTicks(strs, p, n) ==
    LET ticked(res) ==
            IF res.err # "none" THEN res.p
            ELSE parseTicks(strs, res.p, n - 1)
    IN  IF n = 0 \/ isParsingComplete(p) THEN p
        ELSE ticked(processNextChunks(strs, p))

\* The parser after OnGameModeStarted and the parsing ticks.
ParsedFrom(strs) ==
    LET palettes(c) == parseDataPalette(strs, c.p)
        ticks(res) == parseTicks(strs, res.p, MaxChunks)
    IN  ticks(palettes(NewIncrementalDataParser(strs)))

\* VEHICLE_CAP_RADIUS and PLAYER_CAP_RADIUS, lines 837-838.
VEHICLE_CAP_RADIUS == 30

PLAYER_CAP_RADIUS == 15

\* Keys of tracked points (lines 995 and 968): a player and a vehicle.
PlayerKey == "player_1"

VehicleKey == "vehicle_2"

\* Team indexes OngoingGlobal passes: a player's team id less one; for a
\* vehicle what FindClosestTeam returned, -1 when it found no team.
TeamsOf(key) == IF key = PlayerKey THEN {0, 1} ELSE {-1, 1}

RadiusOf(key) ==
    IF key = PlayerKey THEN PLAYER_CAP_RADIUS ELSE VEHICLE_CAP_RADIUS

\* Positions of tracked points.  A player: at the player radius from
\* (0,0,0), just past it, and at that radius from (-64,0,0).  A vehicle:
\* near (0,0,0), and at the vehicle radius from (64,0,0).
PositionsOf(key) ==
    IF key = PlayerKey THEN {<<15, 0, 0>>, <<16, 0, 0>>, <<-49, 0, 0>>}
    ELSE {<<16, 0, 0>>, <<64, 30, 0>>}

\* Most handles the host gives out before the harness stops updating.
MaxHandles == 3

(***************************************************************************)
(* Object manager harness: the manager's methods, in any order             *)
(***************************************************************************)
\* What a manager call leaves in lastCall: the call, whether the call
\* before it was the same, and the host calls it made.
ManagerCall(op, err, calls) ==
    [op |-> op, again |-> (lastCall.op = op), err |-> err, calls |-> calls]

\* The manager as OngoingGlobal constructs it from the parsed dataset of
\* a stored file (lines 850-856); the host has spawned nothing.
ManagerInit ==
    /\ \E file \in ArenaFiles :
          /\ fixture = FixtureOf(file, 0, FALSE)
          /\ strings = StoreBlocks(SplitBytes(FixtureOf(file, 0, FALSE).bytes,
                                      FixtureOf(file, 0, FALSE).layout))
    /\ reader = NewAsyncBinaryReader(NewSpatialSteamReader)
    /\ consumed = <<>>
    /\ lastRead = NoRead
    /\ parser = ParsedFrom(strings)
    /\ objectManager = NewDynamicObjectManager(getResults(parser).data)
    /\ lastCall = [op |-> "constructor", again |-> FALSE, err |-> "none",
                   calls |-> <<>>]
    /\ history = NewHost
    /\ game = NoGame

\* objectManager.addOrUpdateTrackedPoint(key, position, radius, team).
AddOrUpdateTrackedPoint ==
    /\ \E key \in {PlayerKey, VehicleKey} :
          \E position \in PositionsOf(key) :
             \E team \in TeamsOf(key) :
                objectManager' =
                    addOrUpdateTrackedPoint(objectManager, key, position,
                                            RadiusOf(key), team)
    /\ lastCall' = ManagerCall("addOrUpdateTrackedPoint", "none", <<>>)
    /\ UNCHANGED <<strings, reader, consumed, lastRead, fixture, parser,
                   history, game>>

\* objectManager.removeTrackedPoint(key).
RemoveTrackedPoint ==
    /\ \E key \in {PlayerKey, VehicleKey} :
          objectManager' = removeTrackedPoint(objectManager, key)
    /\ lastCall' = ManagerCall("removeTrackedPoint", "none", <<>>)
    /\ UNCHANGED <<strings, reader, consumed, lastRead, fixture, parser,
                   history, game>>

\* objectManager.update().
Update ==
    /\ history.issued < MaxHandles
    /\ LET res == update(objectManager, history)
       IN  /\ objectManager' = res.m
           /\ history' = res.host
           /\ lastCall' = ManagerCall("update", res.err, res.calls)
    /\ UNCHANGED <<strings, reader, consumed, lastRead, fixture, parser,
                   game>>

ManagerNext == AddOrUpdateTrackedPoint \/ RemoveTrackedPoint \/ Update

ManagerSpec == ManagerInit /\ [][ManagerNext]_vars

(***************************************************************************)
(* The score HUD (runtimeSpawn.ts:1066-1084, 1381-1465, 1671-1752)         *)
(***************************************************************************)
RECURSIVE leadingLoop(_, _, _, _)
\* The loop of GetLeadingTeamIDs (lines 1073-1081) over the keys of the
\* scores in iteration order.
leadingLoop(scores, keys, maxScore, leadingTeams) ==
    IF keys = <<>> THEN leadingTeams
    ELSE IF scores[Head(keys)] > maxScore
    THEN leadingLoop(scores, Tail(keys), scores[Head(keys)], <<Head(keys)>>)
    ELSE IF scores[Head(keys)] = maxScore
    THEN leadingLoop(scores, Tail(keys), maxScore,
                     Append(leadingTeams, Head(keys)))
    ELSE leadingLoop(scores, Tail(keys), maxScore, leadingTeams)

\* GetLeadingTeamIDs(), lines 1067-1084.  getTeamScores() holds the keys 1
\* and 2 first and then the key 0 when a team index of -1 owns an object.
GetLeadingTeamIDs(m) ==
    LET led(scores) ==
            leadingLoop(scores,
                        SelectSeq(<<1, 2, 0>>,
                                  LAMBDA k : k \in DOMAIN scores),
                        -1, <<>>)
    IN  IF ~m.exists THEN <<>> ELSE led(getTeamScores(m))

\* The argument of setLeading in updateScore, lines 1426-1430.
leadingArgument(leadingTeams, teamId) ==
    IF Len(leadingTeams) = 1 /\ leadingTeams[1] = teamId THEN TRUE ELSE TRUE

\* ScoreTicker.updateScore(), lines 1414-1432, with setLeading (lines
\* 1437-1442): brackets is what showBrackets last made of the brackets.
updateScore(ticker, scoreCache, m) ==
    LET score == IF ticker.teamId \in DOMAIN scoreCache
                 THEN scoreCache[ticker.teamId] ELSE 0
        led(isLeading) ==
            [ticker EXCEPT !.currentScore = score, !.text = score,
                           !.isLeading = isLeading, !.brackets = isLeading]
    IN  IF ticker.currentScore # score
        THEN led(leadingArgument(GetLeadingTeamIDs(m), ticker.teamId))
        ELSE ticker

\* new ScoreTicker(...), lines 1384-1409: the widget is built with its
\* brackets hidden (line 1348), then refreshed.
NewScoreTicker(teamId, scoreCache, m) ==
    updateScore([teamId |-> teamId, currentScore |-> -1, text |-> -1,
                 isLeading |-> FALSE, brackets |-> FALSE],
                scoreCache, m)

\* new HUDManager(), lines 1742-1744 and 1677-1719: the tickers of teams
\* 1 and 2.
NewHUDManager(scoreCache, m) ==
    [exists |-> TRUE,
     tickers |-> <<NewScoreTicker(1, scoreCache, m),
                   NewScoreTicker(2, scoreCache, m)>>]

\* hudManager.refreshAll(teamScores) when there is a HUD manager, lines
\* 931-933, 1746-1748 and 1721-1726.
refreshAll(hud, scoreCache, m) ==
    IF ~hud.exists THEN hud
    ELSE [hud EXCEPT !.tickers =
             <<updateScore(hud.tickers[1], scoreCache, m),
               updateScore(hud.tickers[2], scoreCache, m)>>]

(***************************************************************************)
(* The tick handler                                                        *)
(***************************************************************************)
\* Most update() calls the ticks make.
MaxTicks == 2

\* What the player loop and the vehicle loop of a tick (lines 864-903)
\* hand to addOrUpdateTrackedPoint, in the order handed: nothing (nobody
\* deployed), a deployed player of team 1, or a deployed player of team 2
\* and a vehicle.
TickPoints ==
    {<<>>,
     <<[key |-> PlayerKey, position |-> <<15, 0, 0>>,
        radius |-> PLAYER_CAP_RADIUS, team |-> 0]>>,
     <<[key |-> PlayerKey, position |-> <<-49, 0, 0>>,
        radius |-> PLAYER_CAP_RADIUS, team |-> 1],
       [key |-> VehicleKey, position |-> <<16, 0, 0>>,
        radius |-> VEHICLE_CAP_RADIUS, team |-> 1]>>}

RECURSIVE trackPoints(_, _)
\* The addOrUpdateTrackedPoint calls of the two loops, lines 878 and 901.
trackPoints(m, pts) ==
    IF pts = <<>> THEN m
    ELSE trackPoints(addOrUpdateTrackedPoint(m, Head(pts).key,
                                             Head(pts).position,
                                             Head(pts).radius,
                                             Head(pts).team),
                     Tail(pts))

\* OngoingGlobal() while parsing is not complete, lines 847-859: the tick
\* parses, builds the manager when that completed the parse, and returns.
\* res is what processNextChunks did.
parsingTick(strs, p, m, g) ==
    LET ticked(res) ==
            IF res.err = "none" /\ isParsingComplete(res.p)
               /\ ~getResults(res.p).isNull
            THEN [p |-> res.p,
                  m |-> NewDynamicObjectManager(getResults(res.p).data),
                  g |-> [g EXCEPT !.built = @ + 1], res |-> res]
            ELSE [p |-> res.p, m |-> m, g |-> g, res |-> res]
    IN  ticked(processNextChunks(strs, p))

\* OngoingGlobal() with the manager built, lines 861-934: updateTeamData,
\* the points of the deployed players and of the vehicles handed to the
\* manager, the game mode ended when the match time is up (timeUp),
\* update(), and the score cache refreshed; a throw in update() ends the
\* tick there, before the HUD is refreshed.
updatingTick(p, m, g, pts, timeUp) ==
    LET scored(tracked, res, scores) ==
            [p |-> p,
             m |-> res.m,
             g |-> [g EXCEPT
                      !.host = res.host,
                      !.teamDataSet = TRUE,
                      !.teamScores = scores,
                      !.ended = IF timeUp
                                THEN Append(@, calculateCurrentWinner(tracked))
                                ELSE @,
                      !.updates = @ + 1,
                      !.hud = IF res.err = "none"
                              THEN refreshAll(@, scores, res.m)
                              ELSE @],
             res |-> [p |-> p, err |-> res.err, ret |-> FALSE,
                      chunks |-> <<>>]]
        updated(tracked, res) ==
            scored(tracked, res,
                   IF res.err = "none" THEN getTeamScores(res.m)
                   ELSE g.teamScores)
        handed(tracked) == updated(tracked, update(tracked, g.host))
    IN  handed(trackPoints(m, pts))

\* A tick that goes on to the manager right after parsing.
ongoingGlobal_noReturn(strs, p, m, g, pts, timeUp) ==
    LET after(t) ==
            IF t.m.exists /\ t.res.err = "none"
            THEN updatingTick(t.p, t.m, t.g, pts, timeUp)
            ELSE t
    IN  after(parsingTick(strs, p, m, g))

\* The body of OngoingGlobal(), lines 843-935, once `parser` is set.  With
\* the parse complete and no manager the tick does nothing.
ongoingGlobal(strs, p, m, g, pts, timeUp) ==
    IF ~isParsingComplete(p) THEN parsingTick(strs, p, m, g)
    ELSE IF m.exists THEN updatingTick(p, m, g, pts, timeUp)
    ELSE [p |-> p, m |-> m, g |-> g,
          res |-> [p |-> p, err |-> "none", ret |-> FALSE, chunks |-> <<>>]]

\* OnGameModeStarted(), lines 774-788: the parser is constructed and its
\* palettes parsed; a throw in the constructor leaves `parser` unset, one
\* in parseDataPalette leaves it set with the palettes unparsed; either
\* way the HUD manager of line 782 is not built.
OnGameModeStarted ==
    /\ Running
    /\ ~parser.exists
    /\ lastCall.op = "none"
    /\ LET c == NewIncrementalDataParser(strings)
           res == parseDataPalette(strings, c.p)
       IN  IF c.err # "none"
           THEN /\ parser' = NoParser
                /\ lastCall' = CallOf("OnGameModeStarted", NoParser,
                                      [p |-> NoParser, err |-> c.err,
                                       ret |-> FALSE, chunks |-> <<>>])
                /\ game' = game
           ELSE /\ parser' = res.p
                /\ lastCall' = CallOf("OnGameModeStarted", NoParser,
                                      [p |-> res.p, err |-> res.err,
                                       ret |-> FALSE, chunks |-> <<>>])
                /\ game' = IF res.err = "none"
                           THEN [game EXCEPT !.hud =
                                    NewHUDManager(game.teamScores,
                                                  objectManager)]
                           ELSE game
    /\ UNCHANGED <<strings, reader, consumed, lastRead, fixture,
                   objectManager, history>>

\* OngoingGlobal(), lines 843-935.
OngoingGlobal ==
    /\ Running
    /\ parser.exists
    /\ isParsingComplete(parser) => game.updates < MaxTicks
    /\ \E pts \in TickPoints, timeUp \in BOOLEAN :
          LET t == ongoingGlobal(strings, parser, objectManager, game, pts,
                                 timeUp)
          IN  /\ parser' = t.p
              /\ objectManager' = t.m
              /\ game' = t.g
              /\ lastCall' = CallOf("OngoingGlobal", parser, t.res)
              /\ history' = HistoryAfter(parser, t.res)
    /\ UNCHANGED <<strings, reader, consumed, lastRead, fixture>>

Next == OnGameModeStarted \/ OngoingGlobal

Spec == Init /\ [][Next]_vars

(***************************************************************************)
(* The callbacks of a match (runtimeSpawn.ts:721-835, 943-1024)            *)
(***************************************************************************)
\* The positions of the two HQs, which updateTeamData stores in
\* teamsPosition (lines 725-733): team 1 to the west, team 2 to the east.
TeamHQPositions == <<<<-64, 0, 0>>, <<64, 0, 0>>>>

RECURSIVE closestLoop(_, _, _, _, _)
\* The loop of FindClosestTeam (lines 812-831) from index i on; distances
\* are compared by their squares, prevDistance < 0 standing for
\* Number.MAX_VALUE.
closestLoop(teamsPosition, vehPos, i, prevDistance, closestIndex) ==
    LET dist == ((teamsPosition[i + 1][1] - vehPos[1])
                   * (teamsPosition[i + 1][1] - vehPos[1]))
                + ((teamsPosition[i + 1][2] - vehPos[2])
                   * (teamsPosition[i + 1][2] - vehPos[2]))
                + ((teamsPosition[i + 1][3] - vehPos[3])
                   * (teamsPosition[i + 1][3] - vehPos[3]))
    IN  IF i >= Len(teamsPosition) THEN closestIndex
        ELSE IF prevDistance < 0 \/ dist < prevDistance
        THEN closestLoop(teamsPosition, vehPos, i + 1, dist, i)
        ELSE closestLoop(teamsPosition, vehPos, i + 1, prevDistance,
                         closestIndex)

\* FindClosestTeam(vehicle), lines 790-835: teamSpawners and teamsPosition
\* are empty until updateTeamData has run (the host gives every vehicle a
\* position).
FindClosestTeam(g, vehPos) ==
    IF ~g.teamDataSet THEN -1
    ELSE closestLoop(TeamHQPositions, vehPos, 0, -1, -1)

\* enableVehicleSpawners(), lines 755-762.
enableVehicleSpawners(g) ==
    IF g.vehicleSpawnersEnabled \/ ~g.teamDataSet THEN g
    ELSE [g EXCEPT !.vehicleSpawnersEnabled = TRUE]

\* What the player loop and the vehicle loop of a tick (lines 864-903)
\* hand to addOrUpdateTrackedPoint for the player and the vehicle the
\* callbacks recorded, at the positions the host reports.
handedPoints(g, playerPos, vehPos) ==
    (IF g.player.joined /\ g.player.deployed
     THEN <<[key |-> PlayerKey, position |-> playerPos,
             radius |-> PLAYER_CAP_RADIUS, team |-> g.player.teamId - 1]>>
     ELSE <<>>)
    \o (IF g.vehicle.present /\ g.vehicle.known
        THEN <<[key |-> VehicleKey, position |-> vehPos,
                radius |-> VEHICLE_CAP_RADIUS, team |-> g.vehicle.team]>>
        ELSE <<>>)

\* A match on an arena dataset or on a file of three chunks, which takes
\* two parsing ticks.
GameFixtures ==
    ArenaFixtures
    \cup {FixtureOf(FileOf(3, <<"G", "M">>, MapAbbasid, 0), 0, FALSE)}

GameInit ==
    /\ \E fx \in GameFixtures :
          /\ fixture = fx
          /\ strings = StoreBlocks(SplitBytes(fx.bytes, fx.layout))
    /\ reader = NewAsyncBinaryReader(NewSpatialSteamReader)
    /\ consumed = <<>>
    /\ lastRead = NoRead
    /\ parser = NoParser
    /\ objectManager = NoManager
    /\ lastCall = NoCall
    /\ history = NoHistory
    /\ game = NoGame

\* A callback other than the tick: the host makes it after
\* OnGameModeStarted; g is the globals it leaves and m the manager.
Callback(op, g, m) ==
    /\ Running
    /\ lastCall.op # "none"
    /\ game' = [g EXCEPT !.midParse =
                   @ \/ (/\ parser.exists
                         /\ parser.currentChunkIndex > 0
                         /\ ~isParsingComplete(parser))]
    /\ objectManager' = m
    /\ lastCall' = CallOf(op, parser,
                          [p |-> parser, err |-> "none", ret |-> FALSE,
                           chunks |-> <<>>])
    /\ UNCHANGED <<strings, reader, consumed, lastRead, fixture, parser,
                   history>>

\* OnPlayerJoinGame(player), lines 995-1008.
OnPlayerJoinGame ==
    /\ ~game.player.joined
    /\ \E teamId \in {1, 2} :
          Callback("OnPlayerJoinGame",
                   [game EXCEPT !.player = [joined |-> TRUE,
                                            deployed |-> FALSE,
                                            teamId |-> teamId]],
                   objectManager)

\* OnPlayerDeployed(player), lines 952-958.
OnPlayerDeployed ==
    /\ game.player.joined
    /\ ~game.player.deployed
    /\ Callback("OnPlayerDeployed",
                enableVehicleSpawners([game EXCEPT !.player.deployed = TRUE]),
                objectManager)

\* OnPlayerUndeploy(player), lines 960-963.
OnPlayerUndeploy ==
    /\ game.player.joined
    /\ game.player.deployed
    /\ Callback("OnPlayerUndeploy",
                [game EXCEPT !.player.deployed = FALSE],
                objectManager)

\* OnPlayerLeaveGame(playerId), lines 1010-1024.
OnPlayerLeaveGame ==
    /\ game.player.joined
    /\ Callback("OnPlayerLeaveGame",
                [game EXCEPT !.player = [joined |-> FALSE,
                                         deployed |-> FALSE,
                                         teamId |-> 0]],
                IF objectManager.exists
                THEN removeTrackedPoint(objectManager, PlayerKey)
                ELSE objectManager)

\* OnVehicleSpawned(vehicle), lines 975-993.
OnVehicleSpawned ==
    /\ ~game.vehicle.present
    /\ \E vehPos \in PositionsOf(VehicleKey) :
          Callback("OnVehicleSpawned",
                   [game EXCEPT !.vehicle =
                       [present |-> TRUE, known |-> TRUE,
                        team |-> FindClosestTeam(game, vehPos)]],
                   objectManager)

\* OnVehicleDestroyed(vehicle), lines 966-972.
OnVehicleDestroyed ==
    /\ game.vehicle.present
    /\ Callback("OnVehicleDestroyed",
                [game EXCEPT !.vehicle.present = FALSE],
                IF objectManager.exists
                THEN removeTrackedPoint(objectManager, VehicleKey)
                ELSE objectManager)

\* OngoingGlobal(), lines 843-935, with the player and the vehicle the
\* callbacks recorded.
GameTick ==
    /\ Running
    /\ parser.exists
    /\ isParsingComplete(parser) => game.updates < MaxTicks
    /\ \E playerPos \in PositionsOf(PlayerKey),
          vehPos \in PositionsOf(VehicleKey), timeUp \in BOOLEAN :
          LET t == ongoingGlobal(strings, parser, objectManager, game,
                                 handedPoints(game, playerPos, vehPos),
                                 timeUp)
          IN  /\ parser' = t.p
              /\ objectManager' = t.m
              /\ game' = t.g
              /\ lastCall' = CallOf("OngoingGlobal", parser, t.res)
              /\ history' = HistoryAfter(parser, t.res)
    /\ UNCHANGED <<strings, reader, consumed, lastRead, fixture>>

GameNext ==
    \/ OnGameModeStarted
    \/ GameTick
    \/ OnPlayerJoinGame
    \/ OnPlayerDeployed
    \/ OnPlayerUndeploy
    \/ OnPlayerLeaveGame
    \/ OnVehicleSpawned
    \/ OnVehicleDestroyed

GameSpec == GameInit /\ [][GameNext]_vars

(***************************************************************************)
(* Properties of the object manager (ManagerSpec)                          *)
(***************************************************************************)
\* The tracked points, in iteration order.
PointsNow == [k \in 1..Len(objectManager.trackedPoints) |->
                 objectManager.trackedPoints[k].value]

\* The world position of the object with a uid.
ObjectAt(uid) ==
    PositionOf(objectManager.mapData.chunkObjects.at[uid],
               float32Value(objectManager.mapData.chunkSize))

\* Squared distance between two positions.
Dist2(a, b) ==
    ((a[1] - b[1]) * (a[1] - b[1])) + ((a[2] - b[2]) * (a[2] - b[2]))
    + ((a[3] - b[3]) * (a[3] - b[3]))

\* Two tracked points of different teams have the object uid within
\* radius.
Contested(uid) ==
    /\ uid \in DOMAIN objectManager.mapData.chunkObjects.at
    /\ \E a, b \in 1..Len(PointsNow) :
          /\ PointsNow[a].team # PointsNow[b].team
          /\ Dist2(ObjectAt(uid), PointsNow[a].point)
                <= PointsNow[a].radius * PointsNow[a].radius
          /\ Dist2(ObjectAt(uid), PointsNow[b].point)
                <= PointsNow[b].radius * PointsNow[b].radius

\* C12: an update() that follows an update() with no tracked point added,
\* changed or removed in between makes no SpawnObject and no UnspawnObject
\* call and leaves ownership, spawnedObjects and spawnedTypes as they
\* were, also when points of different teams overlap an object.
C12_SecondUpdateIdle ==
    [][(lastCall.op = "update" /\ lastCall'.op = "update") =>
          /\ lastCall'.calls = <<>>
          /\ history' = history
          /\ objectManager'.objectOwnership = objectManager.objectOwnership
          /\ objectManager'.spawnedObjects = objectManager.spawnedObjects
          /\ objectManager'.spawnedTypes = objectManager.spawnedTypes]_vars

\* A second update() in a row, with an object spawned that two points of
\* different teams have within radius.
C12_Witness ==
    /\ lastCall.op = "update"
    /\ lastCall.again
    /\ lastCall.err = "none"
    /\ \E uid \in DOMAIN objectManager.spawnedObjects : Contested(uid)

\* The variant a team's objects are shown with: the team's entry of
\* teamMaterialMap, the object's own type when the team has none.
VariantFor(team, typeId) ==
    CASE team = 0 -> BarrierStoneBlock_01_A
      [] team = 1 -> BarrierHesco_01_128x120
      [] OTHER -> typeId

\* The owner of a uid in an ownership map.
OwnerIn(ownership, uid) ==
    (CHOOSE e \in {ownership[k] : k \in 1..Len(ownership)} : e.key = uid).value

\* The uids an ownership map has.
OwnedIn(ownership) == {ownership[k].key : k \in 1..Len(ownership)}

\* C13: after every update() each owned uid is materialized with the
\* variant of its owning team (the object's own type when the team has
\* none): it is in spawnedObjects and spawnedTypes holds that variant; an
\* object whose owner changed to a team with another variant has had its
\* old handle unspawned and replaced by a newly spawned one.
C13_OwnedAreMaterialized ==
    [][(lastCall'.op = "update") =>
          /\ \A uid \in OwnedIn(objectManager'.objectOwnership) :
                /\ uid \in DOMAIN objectManager'.spawnedObjects
                /\ uid \in DOMAIN objectManager'.spawnedTypes
                /\ objectManager'.spawnedTypes[uid] =
                      VariantFor(OwnerIn(objectManager'.objectOwnership, uid),
                          objectManager'.mapData.chunkObjects.at[uid].typeId)
          /\ \A uid \in DOMAIN objectManager.spawnedObjects :
                (objectManager'.spawnedTypes[uid]
                    # objectManager.spawnedTypes[uid]) =>
                   /\ objectManager'.spawnedObjects[uid] > history.issued
                   /\ objectManager'.spawnedObjects[uid]
                         # objectManager.spawnedObjects[uid]
                   /\ \E k \in 1..Len(history'.unspawned) :
                         /\ k > Len(history.unspawned)
                         /\ history'.unspawned[k]
                               = objectManager.spawnedObjects[uid]]_vars

\* The uids of the desired set the last update() computed.
DesiredNow ==
    {objectManager.desiredObjectSet[k] :
        k \in 1..Len(objectManager.desiredObjectSet)}

\* C14: in every state after an update(), every key of spawnedObjects is
\* a member of the desired set that update computed.
C14_SpawnedWereDesired ==
    /\ DOMAIN objectManager.spawnedObjects \subseteq DesiredNow
    /\ DOMAIN objectManager.spawnedTypes = DOMAIN objectManager.spawnedObjects

\* After an update(), with two objects spawned, one of them in no tracked
\* point's radius any more.
C14_Witness ==
    /\ lastCall.op = "update"
    /\ lastCall.err = "none"
    /\ Cardinality(DOMAIN objectManager.spawnedObjects) >= 2
    /\ \E uid \in DOMAIN objectManager.spawnedObjects :
          \A k \in 1..Len(PointsNow) :
             Dist2(ObjectAt(uid), PointsNow[k].point)
                > PointsNow[k].radius * PointsNow[k].radius

\* How often a handle was passed to UnspawnObject.
TimesUnspawned(h) ==
    Cardinality({k \in 1..Len(history.unspawned) : history.unspawned[k] = h})

\* The uids whose stored handle is h.
StoredFor(h) ==
    {uid \in DOMAIN objectManager.spawnedObjects :
        objectManager.spawnedObjects[uid] = h}

\* C16: every handle SpawnObject returned is, from then on, either the
\* handle stored in spawnedObjects for its uid or was passed to
\* UnspawnObject exactly once: none is unspawned twice, no live handle is
\* dropped, and a re-materialization unspawns the old handle before the
\* new one is spawned and stored.
C16_HandlesKeptUntilUnspawned ==
    /\ \A h \in 1..history.issued :
          \/ Cardinality(StoredFor(h)) = 1 /\ TimesUnspawned(h) = 0
          \/ StoredFor(h) = {} /\ TimesUnspawned(h) = 1
    /\ \A k \in 1..Len(history.unspawned) :
          history.unspawned[k] \in 1..history.issued
    /\ \A uid \in DOMAIN objectManager.spawnedObjects :
          objectManager.spawnedObjects[uid] \in 1..history.issued
    /\ (lastCall.op = "update") =>
          \A k \in 1..Len(lastCall.calls) :
             /\ (lastCall.calls[k].call = "UnspawnObject") =>
                   /\ k < Len(lastCall.calls)
                   /\ lastCall.calls[k + 1].call = "SpawnObject"
                   /\ lastCall.calls[k + 1].uid = lastCall.calls[k].uid
                   /\ lastCall.calls[k + 1].handle > lastCall.calls[k].handle
                   /\ objectManager.spawnedObjects[lastCall.calls[k].uid]
                         = lastCall.calls[k + 1].handle
             /\ (lastCall.calls[k].call = "SpawnObject") =>
                   objectManager.spawnedObjects[lastCall.calls[k].uid]
                      = lastCall.calls[k].handle

\* An update() that re-materialized an object while another object kept
\* its handle.
C16_Witness ==
    /\ lastCall.op = "update"
    /\ \E k \in 1..Len(lastCall.calls) :
          lastCall.calls[k].call = "UnspawnObject"
    /\ \E uid \in DOMAIN objectManager.spawnedObjects :
          \A k \in 1..Len(lastCall.calls) : lastCall.calls[k].uid # uid

\* The places, in iteration order, of the tracked points that have the
\* object uid within radius.
PointsInRange(uid) ==
    {k \in 1..Len(PointsNow) :
        Dist2(ObjectAt(uid), PointsNow[k].point)
           <= PointsNow[k].radius * PointsNow[k].radius}

\* The greatest member of a non-empty set of numbers.
Greatest(S) == CHOOSE k \in S : \A j \in S : j <= k

\* C17: when in one update() two tracked points of different teams both
\* have an object within radius, the object's owner after the update is
\* the team of the point that comes later in iteration order.
C17_LaterPointOwns ==
    (lastCall.op = "update") =>
       \A uid \in DOMAIN objectManager.mapData.chunkObjects.at :
          Contested(uid) =>
             /\ uid \in OwnedIn(objectManager.objectOwnership)
             /\ OwnerIn(objectManager.objectOwnership, uid)
                   = PointsNow[Greatest(PointsInRange(uid))].team

\* C18: under the sticky policy the owned uids never shrink over update(),
\* addOrUpdateTrackedPoint and removeTrackedPoint calls: a uid that has an
\* owner keeps having one, and its owner changes only in an update() in
\* which a tracked point of another team has it within radius.
C18_OwnershipNeverRevoked ==
    [][/\ OwnedIn(objectManager.objectOwnership)
             \subseteq OwnedIn(objectManager'.objectOwnership)
       /\ \A uid \in OwnedIn(objectManager.objectOwnership) :
             (OwnerIn(objectManager'.objectOwnership, uid)
                 # OwnerIn(objectManager.objectOwnership, uid)) =>
                /\ lastCall'.op = "update"
                /\ \E k \in PointsInRange(uid) :
                      /\ PointsNow[k].team
                            = OwnerIn(objectManager'.objectOwnership, uid)
                      /\ PointsNow[k].team
                            # OwnerIn(objectManager.objectOwnership, uid)]_vars

\* The last tracked point was removed, and the objects its team captured,
\* one of them re-captured from another team earlier, are still owned.
C18_Witness ==
    /\ lastCall.op = "removeTrackedPoint"
    /\ objectManager.trackedPoints = <<>>
    /\ Len(objectManager.objectOwnership) >= 2
    /\ history.unspawned # <<>>

\* The object uid lies in a cell that update() searches for tracked
\* point k.
InSearchedCell(uid, k) ==
    LET cells == SearchedCells(PointsNow[k].point, PointsNow[k].radius,
                               float32Value(objectManager.mapData.chunkSize))
    IN  \E c \in 1..Len(cells) :
           /\ cells[c] \in DOMAIN objectManager.mapData.chunkSegments
           /\ uid >= objectManager.mapData.chunkSegments[cells[c]].start
           /\ uid < objectManager.mapData.chunkSegments[cells[c]].end

\* C19: the capture test includes the boundary: in an update() an object
\* of a searched cell at squared distance radius * radius from a tracked
\* point is captured by that point's team (it is the owner unless a later
\* point captured the object too), and an object farther than the radius
\* from a point is not captured by it (with no point in range the owner
\* stays as it was).
C19_BoundaryIncluded ==
    [][(lastCall'.op = "update") =>
          \A uid \in DOMAIN objectManager.mapData.chunkObjects.at :
             /\ \A k \in 1..Len(PointsNow) :
                   (/\ InSearchedCell(uid, k)
                    /\ Dist2(ObjectAt(uid), PointsNow[k].point)
                          = PointsNow[k].radius * PointsNow[k].radius
                    /\ k = Greatest(PointsInRange(uid))) =>
                      /\ uid \in OwnedIn(objectManager'.objectOwnership)
                      /\ OwnerIn(objectManager'.objectOwnership, uid)
                            = PointsNow[k].team
             /\ (\A k \in 1..Len(PointsNow) :
                    Dist2(ObjectAt(uid), PointsNow[k].point)
                       > PointsNow[k].radius * PointsNow[k].radius) =>
                   /\ (uid \in OwnedIn(objectManager'.objectOwnership))
                         = (uid \in OwnedIn(objectManager.objectOwnership))
                   /\ (uid \in OwnedIn(objectManager.objectOwnership)) =>
                         OwnerIn(objectManager'.objectOwnership, uid)
                            = OwnerIn(objectManager.objectOwnership, uid)]_vars

\* The uids a team index owns.
UidsOwnedBy(team) ==
    {uid \in OwnedIn(objectManager.objectOwnership) :
        OwnerIn(objectManager.objectOwnership, uid) = team}

\* C20: for each team the score getTeamScores reports (under the team id,
\* the team index plus one) is the number of objects the team owns, and
\* calculateCurrentWinner names the team, 1 or 2, with strictly more
\* objects and returns 0 when the two counts are equal.
C20_ScoresCountOwned ==
    /\ \A teamId \in DOMAIN getTeamScores(objectManager) :
          getTeamScores(objectManager)[teamId]
             = Cardinality(UidsOwnedBy(teamId - 1))
    /\ {1, 2} \subseteq DOMAIN getTeamScores(objectManager)
    /\ \A uid \in OwnedIn(objectManager.objectOwnership) :
          (OwnerIn(objectManager.objectOwnership, uid) + 1)
             \in DOMAIN getTeamScores(objectManager)
    /\ calculateCurrentWinner(objectManager) \in {0, 1, 2}
    /\ (calculateCurrentWinner(objectManager) = 1) <=>
          Cardinality(UidsOwnedBy(0)) > Cardinality(UidsOwnedBy(1))
    /\ (calculateCurrentWinner(objectManager) = 2) <=>
          Cardinality(UidsOwnedBy(1)) > Cardinality(UidsOwnedBy(0))
    /\ (calculateCurrentWinner(objectManager) = 0) <=>
          Cardinality(UidsOwnedBy(0)) = Cardinality(UidsOwnedBy(1))

\* Each team owns one object and a point of no team owns another: a tie
\* with no leader.
C20_Witness ==
    /\ Cardinality(UidsOwnedBy(0)) = 1
    /\ Cardinality(UidsOwnedBy(1)) = 1
    /\ Cardinality(UidsOwnedBy(-1)) = 1
    /\ calculateCurrentWinner(objectManager) = 0

\* C21: under the transient policy the owned and desired set after a tick
\* holds exactly the objects within radius of some tracked point of that
\* tick: an object whose capturing points have all left its radius or
\* been removed is no longer owned, nor materialized, after the next
\* update().
C21_TransientOwnership ==
    (lastCall.op = "update" /\ lastCall.err = "none") =>
       /\ OwnedIn(objectManager.objectOwnership)
             = {uid \in DOMAIN objectManager.mapData.chunkObjects.at :
                   PointsInRange(uid) # {}}
       /\ {objectManager.desiredObjectSet[k] :
              k \in 1..Len(objectManager.desiredObjectSet)}
             = OwnedIn(objectManager.objectOwnership)
       /\ DOMAIN objectManager.spawnedObjects
             = OwnedIn(objectManager.objectOwnership)

\* The host's limit on live runtime objects (about 4096), scaled to the
\* arena datasets of three objects.  No line of the program reads the
\* limit, so update() behaves alike for every value of it.
HostObjectCap == 2

\* C22: in every reachable state the number of materialized objects, the
\* entries of spawnedObjects (spawned and not yet unspawned), is at or
\* below the host's live-object cap, whatever the dataset size and however
\* the tracked points move.
C22_LiveObjectsCapped ==
    /\ Cardinality(DOMAIN objectManager.spawnedObjects) <= HostObjectCap
    /\ history.issued - Len(history.unspawned) <= HostObjectCap

(***************************************************************************)
(* Properties of the tick handler (Spec)                                   *)
(***************************************************************************)
\* C23: the object manager is constructed exactly once, in the
\* OngoingGlobal invocation in which parsing first becomes complete, over
\* the completed dataset (every chunk processed); update() is never
\* invoked in a tick that started with parsing incomplete; and the
\* dataset's object array and segment map are never modified after
\* completion.
C23_ManagerBuiltOnce ==
    [][/\ (game'.built # game.built) =>
             /\ game.built = 0
             /\ game'.built = 1
             /\ lastCall'.op = "OngoingGlobal"
             /\ parser.exists
             /\ ~parser.isComplete
             /\ parser'.isComplete
             /\ history'.processed = Len(parser'.chunkInfos)
             /\ objectManager'.mapData = getResults(parser').data
       /\ (parser.exists /\ ~parser.isComplete /\ parser'.isComplete) =>
             game'.built = game.built + 1
       /\ objectManager'.exists <=> (game'.built = 1)
       /\ (game'.updates # game.updates) =>
             /\ parser.exists
             /\ parser.isComplete
             /\ objectManager.exists
       /\ (parser.exists /\ parser.isComplete) =>
             /\ parser'.isComplete
             /\ parser'.chunkObjects = parser.chunkObjects
             /\ parser'.chunkMap = parser.chunkMap
             /\ objectManager'.exists
             /\ objectManager'.mapData = objectManager.mapData]_vars

\* A parse of more than one tick has completed, the manager was built and
\* a later tick has handed it tracked points and called update().
C23_Witness ==
    /\ history.cycles >= 2
    /\ game.built = 1
    /\ game.updates >= 1
    /\ objectManager.exists
    /\ objectManager.trackedPoints # <<>>

(***************************************************************************)
(* Further properties of the parser (ParserSpec)                           *)
(***************************************************************************)
\* C24: a call of parseDataPalette made at any point after one has
\* succeeded reads no bytes and changes no parser state: the palettes, the
\* chunk-index records, totalOffset and currentChunkIndex (and the reader's
\* window) are as before.
C24_SecondPaletteParseIdle ==
    [][(lastCall'.op = "parseDataPalette" /\ parser.exists
        /\ parser.headerParsed) =>
          /\ parser' = parser
          /\ lastCall'.err = "none"
          /\ lastCall'.readBytes = 0]_vars

\* parseDataPalette was called again in the middle of the chunks, on a
\* file with palettes and chunk-index records to read.
C24_Witness ==
    /\ lastCall.op = "parseDataPalette"
    /\ lastCall.headerBefore
    /\ parser.currentChunkIndex > 0
    /\ ~parser.isComplete
    /\ Len(parser.chunkInfos) > CHUNKS_PER_CYCLE
    /\ Len(parser.typePalette) > 0

(***************************************************************************)
(* The stored stream as the compiler splits it, read block by block        *)
(***************************************************************************)
\* int chunkSize = 200, Program.cs:438.
JsonChunkSize == 200

RECURSIVE Substrings(_, _)
\* The segments of the loop of Program.cs:440-445:
\* encoded.Substring(i, Math.Min(chunkSize, encoded.Length - i)) for
\* i = 0, chunkSize, 2 * chunkSize, ...
Substrings(encoded, chunkSize) ==
    IF encoded = <<>> THEN <<>>
    ELSE <<SubSeq(encoded, 1, Min(chunkSize, Len(encoded)))>>
         \o Substrings(SubSeq(encoded, Min(chunkSize, Len(encoded)) + 1,
                              Len(encoded)),
                       chunkSize)

\* jsonChunks as Program.cs:436-445 fills it from the binary data: what
\* mod.strings holds at run time.
jsonChunks(binaryData) ==
    LET stored(segs) ==
            [key \in {JsonKey(i - 1) : i \in 1..Len(segs)} |->
                segs[CHOOSE j \in 1..Len(segs) : JsonKey(j - 1) = key]]
    IN  stored(Substrings(EncodeCustomBase16(binaryData), JsonChunkSize))

\* Longest byte array the stream harness stores: 17 segments, under the
\* keys A0..A9, AA..AF and A10.
MaxStreamBytes == 1650

\* Byte i (1-based) of the array with a stride: strides 37 and 255 run
\* through all 256 byte values.
StreamByte(stride, i) == (stride * i) % 256

\* The byte arrays stored: empty, one byte, around one full segment, and
\* the longest.
StreamArrays ==
    {[i \in 1..n |-> StreamByte(stride, i)] :
        n \in {0, 1, DECODE_CHUNK_SIZE - 1, DECODE_CHUNK_SIZE,
               DECODE_CHUNK_SIZE + 1},
        stride \in {37, 255}}
    \cup {[i \in 1..MaxStreamBytes |-> StreamByte(37, i)]}

\* The byte counts read() is called with: short of a segment, a segment,
\* and more than two segments.
ReadCounts == {DECODE_CHUNK_SIZE - 1, DECODE_CHUNK_SIZE, 257}

StreamInit ==
    /\ \E binaryData \in StreamArrays :
          /\ fixture = [kind |-> "bytes", bytes |-> binaryData,
                        layout |-> CompilerLayout(Len(binaryData))]
          /\ strings = jsonChunks(binaryData)
    /\ reader = NewAsyncBinaryReader(NewSpatialSteamReader)
    /\ consumed = <<>>
    /\ lastRead = NoRead
    /\ parser = NoParser
    /\ objectManager = NoManager
    /\ lastCall = NoCall
    /\ history = NoHistory
    /\ game = NoGame

\* stringReader.read(byteCount), until the reader has found the next key
\* missing.
StreamRead ==
    /\ ~reader.stringReader.eof
    /\ lastRead.err = "none"
    /\ \E byteCount \in ReadCounts :
          LET res == read(strings, reader.stringReader, byteCount)
          IN  /\ reader' = [reader EXCEPT !.stringReader = res.sr]
              /\ consumed' = consumed \o res.data
              /\ lastRead' = [op |-> "read", err |-> res.err,
                              bytes |-> res.data, before |-> Len(consumed),
                              left |-> Len(fixture.bytes) - Len(consumed),
                              asked |-> byteCount, isNull |-> res.isNull]
    /\ UNCHANGED <<strings, fixture, parser, objectManager, lastCall, history,
                   game>>

StreamSpec == StreamInit /\ [][StreamRead]_vars

\* C25: for every byte array B, with EncodeCustomBase16(B) split into
\* 200-character segments under the keys A0, A1, ... (uppercase
\* hexadecimal index) as the compiler stores it, reading through
\* SpatialSteamReader up to the first missing key yields exactly the bytes
\* of B in order and then end-of-stream, and no read raises the odd-length,
\* invalid-character or buffer-too-small error.
C25_CompilerStreamRoundTrip ==
    /\ lastRead.err = "none"
    /\ consumed = SubSeq(fixture.bytes, 1, Len(consumed))
    /\ reader.stringReader.eof => consumed = fixture.bytes
    /\ lastRead.op = "read" =>
          /\ lastRead.bytes
                = SubSeq(fixture.bytes, lastRead.before + 1,
                         lastRead.before + Min(lastRead.asked, lastRead.left))
          /\ lastRead.isNull <=> (lastRead.left = 0)
          /\ reader.stringReader.eof <=> (lastRead.asked > lastRead.left)
    /\ lastRead.op # "read" => ~reader.stringReader.eof

\* The longest array was read to its end, across the keys AA and A10, the
\* last read returning fewer bytes than asked for.
C25_Witness ==
    /\ Len(fixture.bytes) = MaxStreamBytes
    /\ JsonKey(16) \in DOMAIN strings
    /\ reader.stringReader.eof
    /\ reader.stringReader.chunkIndex = 17
    /\ consumed = fixture.bytes
    /\ lastRead.bytes # <<>>
    /\ Len(lastRead.bytes) < lastRead.asked

\* C26: in the compiler's output chunk-index entry i holds the absolute
\* byte position at which the payload of chunk i starts; the payloads are
\* laid out in index order without gaps (the first at the end of the chunk
\* index, each next one where the one before ends, the last ending the
\* file); the length of entry i is the number of bytes the parser consumes
\* for chunk i; and parsing the output never raises the chunk-offset
\* error.
C26_CompilerOffsetsMatch ==
    (Whole(fixture) /\ parser.exists /\ parser.headerParsed) =>
       LET n == Len(parser.chunkInfos)
           info(i) == parser.chunkInfos[i].v
       IN  /\ n = Len(fixture.file.chunks)
           /\ \A i \in 1..n :
                 SubSeq(fixture.bytes, info(i).offset + 1,
                        info(i).offset + info(i).length)
                    = WriteChunk(fixture.file.chunks[i].objs)
           /\ (n > 0 /\ lastCall.op = "parseDataPalette"
               /\ ~lastCall.headerBefore) =>
                 info(1).offset = parser.reader.totalOffset
           /\ \A i \in 1..(n - 1) :
                 info(i + 1).offset = info(i).offset + info(i).length
           /\ n > 0 => info(n).offset + info(n).length = Len(fixture.bytes)
           /\ \A k \in 1..Len(history.log) :
                 /\ history.log[k].err = "none"
                 /\ history.log[k].at = info(history.log[k].index + 1).offset
                 /\ history.log[k].atEnd - history.log[k].at
                       = info(history.log[k].index + 1).length
           /\ lastCall.err = "none"

\* A file of at least three chunks, their records of different sizes
\* (inline scale or rotation after some), has been parsed to its end.
C26_Witness ==
    /\ Whole(fixture)
    /\ parser.exists
    /\ parser.isComplete
    /\ Len(parser.chunkInfos) >= 3
    /\ Len(history.log) = Len(parser.chunkInfos)
    /\ \A i \in 1..Len(parser.chunkInfos) :
          (parser.chunkInfos[i].v.length - 2) % 10 # 0

(***************************************************************************)
(* The codec alone: a byte array encoded by the compiler, the text         *)
(* possibly damaged on its way, decoded into a buffer of some capacity     *)
(***************************************************************************)
\* Longest byte array the codec harness encodes.
MaxCodecBytes == 4

\* The byte arrays encoded: none, every single byte, and longer ones.
CodecArrays ==
    {<<>>, <<0, 255>>, <<18, 52, 171>>, <<240, 15, 128, 127>>}
    \cup {<<b>> : b \in 0..255}

\* Characters that replace one of the text: a letter, a character code
\* of 128 and above, and the character before the space.
StrayCharacters == {65, 200, 31}

CodecInit ==
    /\ \E data \in CodecArrays, capacity \in {1, MaxCodecBytes} :
          fixture = [kind |-> "codec", bytes |-> data, text |-> <<>>,
                     encoded |-> FALSE, damaged |-> FALSE,
                     capacity |-> capacity]
    /\ strings = <<>>
    /\ reader = NewAsyncBinaryReader(NewSpatialSteamReader)
    /\ consumed = <<>>
    /\ lastRead = NoRead
    /\ parser = NoParser
    /\ objectManager = NoManager
    /\ lastCall = NoCall
    /\ history = NoHistory
    /\ game = NoGame

\* Utilities.EncodeCustomBase16(data).
Encode ==
    /\ ~fixture.encoded
    /\ fixture' = [fixture EXCEPT !.text = EncodeCustomBase16(fixture.bytes),
                                  !.encoded = TRUE]
    /\ UNCHANGED <<strings, reader, consumed, lastRead, parser, objectManager,
                   lastCall, history, game>>

\* The text loses its last character, or has one character replaced.
Damage ==
    /\ fixture.encoded
    /\ ~fixture.damaged
    /\ lastRead.op = "none"
    /\ fixture.text # <<>>
    /\ \/ fixture' = [fixture EXCEPT
                        !.text = SubSeq(@, 1, Len(@) - 1),
                        !.damaged = TRUE]
       \/ \E i \in 1..Len(fixture.text), c \in StrayCharacters :
             fixture' = [fixture EXCEPT !.text[i] = c, !.damaged = TRUE]
    /\ UNCHANGED <<strings, reader, consumed, lastRead, parser, objectManager,
                   lastCall, history, game>>

\* decodeCustomBase16(text, new Uint8Array(capacity)).
Decode ==
    /\ fixture.encoded
    /\ lastRead.op = "none"
    /\ LET res == decodeCustomBase16(fixture.text,
                                     [j \in 1..fixture.capacity |-> 0])
       IN  lastRead' = [op |-> "decodeCustomBase16", err |-> res.err,
                        bytes |-> SubSeq(res.out, 1, res.n), before |-> 0,
                        left |-> 0, n |-> res.n, index |-> res.index]
    /\ UNCHANGED <<strings, reader, consumed, fixture, parser, objectManager,
                   lastCall, history, game>>

CodecNext == Encode \/ Damage \/ Decode

CodecSpec == CodecInit /\ [][CodecNext]_vars

\* C27: encoding a byte array with the 16-symbol alphabet (high nibble
\* first, then low nibble) and decoding the text with decodeCustomBase16
\* yields the original bytes and the original length.
C27_CodecRoundTrip ==
    (lastRead.op = "decodeCustomBase16" /\ ~fixture.damaged
     /\ Len(fixture.bytes) <= fixture.capacity) =>
       /\ lastRead.err = "none"
       /\ lastRead.n = Len(fixture.bytes)
       /\ lastRead.bytes = fixture.bytes

\* An array of several bytes, nibbles 0 and 15 among them, was encoded and
\* decoded.
C27_Witness ==
    /\ lastRead.op = "decodeCustomBase16"
    /\ ~fixture.damaged
    /\ fixture.bytes = <<240, 15, 128, 127>>
    /\ lastRead.n = MaxCodecBytes

\* The 0-based indexes of the characters of the decoded text that are
\* outside the 16-symbol alphabet.
StrayIndexes ==
    {i - 1 : i \in {j \in 1..Len(fixture.text) :
                       \A k \in 1..16 : CUSTOM_BASE16_TABLE[k] # fixture.text[j]}}

\* C28: decodeCustomBase16 fails exactly when the text has odd length,
\* holds a character outside the 16-symbol alphabet, or decodes to more
\* bytes than the output buffer holds, and succeeds otherwise; for a
\* character outside the alphabet the error reports the index of the
\* offending character.
C28_DecodeFailsExactly ==
    lastRead.op = "decodeCustomBase16" =>
       /\ (lastRead.err # "none") <=>
             \/ Len(fixture.text) % 2 # 0
             \/ StrayIndexes # {}
             \/ Len(fixture.text) \div 2 > fixture.capacity
       /\ lastRead.err = "Invalid hex character" =>
             lastRead.index \in StrayIndexes

(***************************************************************************)
(* Further properties of the readers (ReaderSpec)                          *)
(***************************************************************************)
RECURSIVE VarintAt(_, _, _)
\* The length prefix that starts at the 0-based position pos of bytes, its
\* group k first: len is the number of bytes it takes, value the number L
\* its 7-bit groups spell, lowest group first (big: L is 2^31 or more),
\* complete whether it ends inside bytes.
VarintAt(bytes, pos, k) ==
    LET group == bytes[pos + 1] % 128
        bigHere == group # 0 /\ (k >= 5 \/ (k = 4 /\ group >= 8))
        joined(rest) ==
            [len |-> 1 + rest.len,
             value |-> (IF group = 0 \/ bigHere THEN 0
                        ELSE group * Pow2(7 * k)) + rest.value,
             big |-> bigHere \/ rest.big,
             complete |-> rest.complete]
    IN  IF pos + 1 > Len(bytes)
        THEN [len |-> 0, value |-> 0, big |-> FALSE, complete |-> FALSE]
        ELSE joined(IF bytes[pos + 1] >= 128
                    THEN VarintAt(bytes, pos + 1, k + 1)
                    ELSE [len |-> 0, value |-> 0, big |-> FALSE,
                          complete |-> TRUE])

\* C29: a readString that returns has decoded the length prefix at the
\* read position (7-bit groups, lowest first, bit 0x80 for continuation)
\* to L and returns the text of exactly the L payload bytes after it, totalOffset
\* advanced by the prefix length plus L; at a zero byte it consumes that
\* byte alone and returns the empty string; this is so whether the payload
\* is inside the window or crosses one or more refills.
C29_ReadStringPayload ==
    (lastRead.op = "readString" /\ lastRead.err = "none") =>
       LET v == VarintAt(fixture.bytes, lastRead.before, 0)
           payload == SubSeq(fixture.bytes, lastRead.before + v.len + 1,
                             lastRead.before + v.len + v.value)
       IN  /\ v.complete
           /\ ~v.big
           /\ lastRead.before + v.len + v.value <= Len(fixture.bytes)
           /\ lastRead.bytes
                 = SubSeq(fixture.bytes, lastRead.before + 1,
                          lastRead.before + v.len) \o payload
           /\ lastRead.val = decodeUTF8(payload, 0, Len(payload)).chars
           /\ reader.totalOffset = lastRead.before + v.len + v.value
           /\ fixture.bytes[lastRead.before + 1] = 0 =>
                 /\ lastRead.bytes = <<0>>
                 /\ lastRead.val = <<>>

(***************************************************************************)
(* The size of an object record (ParserSpec)                               *)
(***************************************************************************)
\* Bytes of an object's record as BinaryFormat.md:53-70 lays it out: a
\* 6-byte localPos and one byte each for scaleIndex, rotationIndex and
\* typeID, then 6 bytes for each index that is 255.
DocumentedRecordSize(scaleIdx, rotIdx) ==
    9 + (IF scaleIdx = 255 THEN 6 ELSE 0) + (IF rotIdx = 255 THEN 6 ELSE 0)

\* C30: an object record takes 9 bytes, 6 more when scaleIndex is 255 and
\* 6 more when rotationIndex is 255, 21 at most; the parser consumes that
\* many bytes for every object it reads and the compiler has written that
\* many for it.
C30_ObjectRecordSize ==
    \A ev \in LastChunks :
       /\ \A j \in 1..Len(ev.objects) :
             /\ ev.objects[j].size =
                   DocumentedRecordSize(ev.objects[j].scaleIdx,
                                        ev.objects[j].rotIdx)
             /\ ev.objects[j].size <= 21
       /\ Whole(fixture) =>
             \A j \in 1..Len(ev.objects) :
                Len(WriteObject(fixture.file.chunks[ev.index + 1].objs[j]))
                   = DocumentedRecordSize(ev.objects[j].scaleIdx,
                                          ev.objects[j].rotIdx)

(***************************************************************************)
(* The radius query against a scan of all objects (ManagerSpec)            *)
(***************************************************************************)
\* The uids a scan of every object of the dataset finds within radius of
\* some tracked point.
BruteForceInRange ==
    {uid \in DOMAIN objectManager.mapData.chunkObjects.at :
        \E k \in 1..Len(PointsNow) :
           Dist2(ObjectAt(uid), PointsNow[k].point)
              <= PointsNow[k].radius * PointsNow[k].radius}

\* C31: after update() every object of the dataset within radius of some
\* tracked point has an ownership entry: the search of the cells around
\* each point finds what a scan of all objects finds, also for an object
\* placed on the upper face of its chunk and for negative coordinates.
C31_CubeSearchFindsAll ==
    [][(lastCall'.op = "update") =>
          BruteForceInRange \subseteq OwnedIn(objectManager'.objectOwnership)
      ]_vars

(***************************************************************************)
(* The object array of the parser (ParserSpec)                             *)
(***************************************************************************)
\* C32: in every parser state each index below currentObjectCount of the
\* object array holds an object whose uid is that index, and every index
\* inside a chunk's span holds an object, also after the creation of an
\* object has failed and the failure was caught.
C32_ObjectArrayDense ==
    parser.exists =>
       /\ \A i \in 0..(parser.currentObjectCount - 1) :
             /\ i \in DOMAIN parser.chunkObjects.at
             /\ parser.chunkObjects.at[i].uid = i
       /\ \A key \in DOMAIN parser.chunkMap :
             \A i \in parser.chunkMap[key].start
                      ..(parser.chunkMap[key].end - 1) :
                i \in DOMAIN parser.chunkObjects.at

(***************************************************************************)
(* What the parser checks of the chunk index (ParserSpec)                  *)
(***************************************************************************)
\* The chunk-index entry of the k-th logged processChunk call.
InfoOf(k) == ArrayAt(parser.chunkInfos, history.log[k].index).v

\* C36 as stated: a parser that completes has consumed, for every chunk
\* and the last one too, exactly the chunk's declared byteLength:
\* totalOffset after chunk i is offset[i] + length[i].
C36_LengthMismatchRejected ==
    (parser.exists /\ parser.isComplete) =>
       \A k \in 1..Len(history.log) :
          history.log[k].atEnd = InfoOf(k).offset + InfoOf(k).length

\* C36: the parser compares the read position with a chunk's declared
\* offset as the chunk begins, and with nothing else: a parser that
\* completes has begun every chunk at its declared offset, so what it
\* consumed for a chunk is the distance to the next chunk's offset; the
\* declared byteLength is never compared and the end of the last chunk is
\* not checked.
C36_OffsetMismatchRejected ==
    (parser.exists /\ parser.isComplete) =>
       /\ Len(history.log) = Len(parser.chunkInfos)
       /\ \A k \in 1..Len(history.log) :
             /\ history.log[k].err = "none"
             /\ history.log[k].at = InfoOf(k).offset
             /\ k < Len(history.log) =>
                   history.log[k].atEnd = InfoOf(k + 1).offset

\* A parse completed on a file of three chunks or more in which a chunk
\* that is not the last declares a byteLength the parser did not consume.
C36_Witness ==
    /\ parser.exists /\ parser.isComplete
    /\ Len(history.log) >= 3
    /\ \E k \in 1..(Len(history.log) - 1) :
          /\ history.log[k].atEnd # InfoOf(k).offset + InfoOf(k).length
          /\ history.log[k].atEnd > history.log[k].at + 2

(***************************************************************************)
(* The size of the reader's window (ReaderSpec)                            *)
(***************************************************************************)
\* C38: in every state of the buffered reader 0 <= bufOffset <= bufLength
\* <= BUFFER_SIZE: the window does not grow with the stream; and the
\* stream decoder holds one decoded block of at most 100 bytes.
C38_WindowBounded ==
    /\ 0 <= reader.bufOffset
    /\ reader.bufOffset <= reader.bufLength
    /\ reader.bufLength <= BUFFER_SIZE
    /\ Len(reader.buffer) = BUFFER_SIZE
    /\ Len(reader.stringReader.chunkData) <= 100
    /\ reader.stringReader.currentChunkLength
          <= Len(reader.stringReader.chunkData)

(***************************************************************************)
(* The score tickers of the HUD (Spec)                                     *)
(***************************************************************************)
\* The score the cache holds for a team id.
CachedScore(teamId) ==
    IF teamId \in DOMAIN game.teamScores THEN game.teamScores[teamId] ELSE 0

\* C35: after every HUD refresh the ticker of a team shows its brackets
\* exactly when the team is the sole leader, its score strictly higher
\* than the other team's; with a tie or the other team ahead they are
\* hidden.
C35_BracketsOnlyForLeader ==
    game.hud.exists =>
       \A t \in 1..2 :
          game.hud.tickers[t].brackets
             <=> (CachedScore(t) > CachedScore(3 - t))

(***************************************************************************)
(* Claims about the callbacks of a match                                   *)
(***************************************************************************)
\* The sum of the values of a score map whose keys lie in 0..2.
ScoreTotal(scores) ==
    (IF 0 \in DOMAIN scores THEN scores[0] ELSE 0)
    + (IF 1 \in DOMAIN scores THEN scores[1] ELSE 0)
    + (IF 2 \in DOMAIN scores THEN scores[2] ELSE 0)

\* C34: whatever the order of OnVehicleSpawned and the tick in which
\* updateTeamData first runs, every tracked point the capture engine holds
\* has team index 0 or 1, getTeamScores has exactly the keys 1 and 2, and
\* its values sum to the number of owned objects.
C34_TeamIndexValid ==
    objectManager.exists =>
        /\ \A k \in 1..Len(PointsNow) : PointsNow[k].team \in {0, 1}
        /\ DOMAIN getTeamScores(objectManager) = {1, 2}
        /\ ScoreTotal(getTeamScores(objectManager))
              = Len(objectManager.objectOwnership)

\* C33: in a tick that runs update() while the player is joined and not
\* deployed, an object that gets an owner, or a new owner, gets the team of
\* a tracked point other than the player's that has it within its radius:
\* the last position of an undeployed player does not capture.
C33_UndeployedStopsCapturing ==
    [][(/\ lastCall'.op = "OngoingGlobal"
        /\ game'.updates = game.updates + 1
        /\ game.player.joined
        /\ ~game.player.deployed)
       => \A uid \in OwnedIn(objectManager'.objectOwnership) :
             (\/ uid \notin OwnedIn(objectManager.objectOwnership)
              \/ OwnerIn(objectManager.objectOwnership, uid)
                    # OwnerIn(objectManager'.objectOwnership, uid))
             => \E k \in 1..Len(objectManager'.trackedPoints) :
                   LET pt == objectManager'.trackedPoints[k]
                   IN  /\ pt.key # PlayerKey
                       /\ pt.value.team
                             = OwnerIn(objectManager'.objectOwnership, uid)
                       /\ Dist2(PositionOf(
                                  objectManager'.mapData.chunkObjects.at[uid],
                                  float32Value(
                                      objectManager'.mapData.chunkSize)),
                                pt.value.point)
                             <= pt.value.radius * pt.value.radius
      ]_vars

\* The parser after one pass over every chunk of the stream: the
\* constructor, parseDataPalette, then the chunk loop of processNextChunks
\* from the first index entry to the last.
SinglePass(strs) ==
    LET pass(p) == afterChunkLoop(processRange(strs, p, 0,
                                               Len(p.chunkInfos)),
                                  Len(p.chunkInfos)).p
    IN  pass(parseDataPalette(strs, NewIncrementalDataParser(strs).p).p)

\* C37: every step that leaves the parser complete either completes the
\* parse with the dataset (objects, uids, chunk segments) that a single pass
\* over all chunks of the stream produces, or leaves an already completed
\* parser as it was; so the completed dataset is that of the single pass
\* whatever callbacks the host made between and after the parsing ticks.
C37_DatasetFromStreamOnly ==
    [][(parser'.exists /\ isParsingComplete(parser'))
       => \/ /\ parser.exists
             /\ isParsingComplete(parser)
             /\ parser' = parser
          \/ getResults(parser') = getResults(SinglePass(strings))
      ]_vars

\* A parse of more than one tick has completed, and the host made a
\* callback between two of its ticks.
C37_Witness ==
    /\ parser.exists
    /\ isParsingComplete(parser)
    /\ history.cycles >= 2
    /\ game.midParse
    /\ ~getResults(parser).isNull
    /\ getResults(parser).data.objectCount > 0

====
